---- MODULE Spec2Model ----
(***************************************************************************)
(* A model of the raster class reconciliation and grid alignment engine:   *)
(*   - class remapping (class_reconciliation.py, class_reconciliation_v1,  *)
(*     class_reconciliation_confidence_based, class_reconciliation_enhanced)*)
(*   - majority gap filling (fill_nodata_majority)                         *)
(*   - grid alignment (align_bounds_to_grid)                               *)
(*   - classification-system detection (class_mapper.py)                   *)
(*   - the reconciliation runs and their temporary files                   *)
(*   - the persistence of the mapping table (save/load_mapping_config)     *)
(*   - the upload requests of the service and their temporary files        *)
(* Each part has its own specification over the shared variables; the      *)
(* variables of the other parts stay at their initial values.              *)
(***************************************************************************)
EXTENDS Integers, Sequences, FiniteSets, TLC

VARIABLES
    \* ---- remapping and gap filling
    rpc,                 \* "input" -> "mapped" -> "filled"
    variant,             \* which apply-mapping implementation ran
    clouds_as_nodata,    \* FuelModelReconciliation.clouds_as_nodata
    data,                \* the source raster (rows of pixels)
    fuel_output,         \* the remapped raster
    confidence_output,   \* the confidence raster (float32), <<>> when not written
    unmapped_count,      \* the unmapped-pixel count the remapper reports
    window_size,         \* fill_nodata_majority(window_size=...)
    filled_data,         \* the gap-filled raster
    \* ---- the engine's mapping table
    mapping_with_metadata,  \* source code -> [target, confidence, rationale]
    \* ---- grid alignment (AlignedFuelModelReconciliation)
    apc,                 \* "ready" -> "aligned"
    grid_origin_x,       \* self.grid_origin_x
    grid_origin_y,       \* self.grid_origin_y
    reference_res,       \* self.reference_res = (x_res, y_res)
    align_input,         \* the arguments of align_bounds_to_grid
    aligned,             \* what align_bounds_to_grid returned
    \* ---- classification-system detection (ClassReconciler)
    dpc,                 \* "ready" -> "detected"
    detected_classes,    \* the list of codes handed to the detector
    detected_system,     \* the tag detect_classification_system returned
    confidence_threshold, \* the threshold handed to create_class_mapping
    mapping_result,      \* the ClassMapping create_class_mapping returned
    \* ---- reconciliation runs on a shared file system
    files,               \* path -> what the file holds
    temp_dirs,           \* the output directories whose "temp" directory exists
    run,                 \* per run: its arguments, its position, its outcome
    grid_owner,          \* the run whose load_reference_grid set the grid
    interference,        \* what a run did to a file or grid of another run
    \* ---- the other attributes of the v1 engine, and its configuration file
    fbfm40_descriptions,     \* target code -> description
    expected_source_classes,
    valid_fbfm40_classes,
    validation_passed,
    validation_results,      \* test name -> [passed, result]
    config_file,             \* the document save_mapping_config wrote
    loaded,                  \* the engine built from the document
    \* ---- the upload requests of the service (geospatial-service/app/main.py)
    request,                 \* per request: endpoint, arguments, position
    tmp_on_disk              \* the temporary files that exist

rasterVars == <<rpc, variant, clouds_as_nodata, data, fuel_output,
                confidence_output, unmapped_count, window_size, filled_data>>

tableVars == <<mapping_with_metadata, fbfm40_descriptions,
               expected_source_classes, valid_fbfm40_classes,
               validation_passed, validation_results>>

configVars == <<config_file, loaded>>

serviceVars == <<request, tmp_on_disk>>

alignVars == <<apc, grid_origin_x, grid_origin_y, reference_res, align_input,
               aligned>>

detectVars == <<dpc, detected_classes, detected_system, confidence_threshold,
                mapping_result>>

runVars == <<files, temp_dirs, run, grid_owner, interference>>

\* The grid parameters live on the engine object the runs share.
gridVars == <<grid_origin_x, grid_origin_y, reference_res>>

vars == <<rasterVars, tableVars, alignVars, detectVars, runVars, configVars, serviceVars>>

-----------------------------------------------------------------------------
(* Bounds of the model *)

\* A generated input raster has at most this many pixels (all shapes h x w).
MaxPixels == 6
\* Gap-fill windows have side 2*k+1 for k in 0..MaxHalfWindow.
MaxHalfWindow == 1
\* Bounding-box edges lie within this distance of the reference grid's origin.
MaxOffset == 4
\* The detector is handed lists of at most this many codes (and the full code
\* lists of the known schemes).
MaxCodes == 3

-----------------------------------------------------------------------------
(* Program constants *)

NoData == -9999

\* The one source code the clouds_as_nodata flag redirects.
CloudClass == 10

\* load_default_mapping: source code -> target, confidence (in hundredths).
DefaultMapping ==
    ( 1 :> [target |-> 98,  confidence |-> 95,
            rationale |-> "Perfect semantic match: Water -> Open Water"] @@
      2 :> [target |-> 183, confidence |-> 55,
            rationale |-> "Conservative choice: Trees -> Moderate conifer litter (high uncertainty)"] @@
      4 :> [target |-> 121, confidence |-> 60,
            rationale |-> "Reasonable match: Flooded vegetation -> Grass-shrub mix"] @@
      5 :> [target |-> 102, confidence |-> 75,
            rationale |-> "Good match: Crops behave like low load grass fuels"] @@
      7 :> [target |-> 91,  confidence |-> 90,
            rationale |-> "Direct match: Built Area -> Urban/Developed"] @@
      8 :> [target |-> 99,  confidence |-> 85,
            rationale |-> "Good match: Bare ground -> Barren"] @@
      9 :> [target |-> 92,  confidence |-> 95,
            rationale |-> "Perfect match: Snow/Ice -> Snow/Ice"] @@
      10 :> [target |-> 183, confidence |-> 20,
             rationale |-> "Very uncertain: Clouds -> Default forest assumption"] @@
      11 :> [target |-> 102, confidence |-> 70,
             rationale |-> "Good match: Rangeland -> Low load grass"] )

-----------------------------------------------------------------------------
(* Rasters: a sequence of rows, each a sequence of pixels *)

Height(r) == Len(r)
Width(r) == IF Len(r) = 0 THEN 0 ELSE Len(r[1])
Pixels(r) == {<<i, j>> : i \in 1..Height(r), j \in 1..Width(r)}

\* np.full(shape, v)
Full(h, w, v) == [i \in 1..h |-> [j \in 1..w |-> v]]

\* out[data == k] = v : write v wherever the mask of k holds.
Masked(out, src, k, v) ==
    [i \in 1..Height(src) |->
        [j \in 1..Width(src) |-> IF src[i][j] = k THEN v ELSE out[i][j]]]

\* np.sum(mask) for the mask of the pixels satisfying P.
CountWhere(r, P(_, _)) == Cardinality({p \in Pixels(r) : P(p[1], p[2])})

-----------------------------------------------------------------------------
(* float32 storage of a confidence.  A configured confidence is c/100; the  *)
(* confidence raster has dtype float32, so the stored pixel is the float32  *)
(* nearest to c/100.  Stored values are counted in units of 2^-30.          *)

\* 2^28 = 25 * 10737418 + 6, so c/100 * 2^30 = c*10737418 + (c*6)/25.
UnitsFloor(c) == c * 10737418 + ((c * 6) \div 25)
UnitsRem(c) == (c * 6) % 25

\* The spacing of float32 values around c/100, in units of 2^-30.
Ulp(c) ==
    IF c >= 100 THEN 128
    ELSE IF c >= 50 THEN 64
    ELSE IF c >= 25 THEN 32
    ELSE IF c >= 13 THEN 16
    ELSE IF c >= 7 THEN 8
    ELSE IF c >= 4 THEN 4
    ELSE IF c >= 2 THEN 2
    ELSE 1

\* Round to nearest, ties to even.
ToFloat32(c) ==
    IF c = 0 THEN 0
    ELSE LET u == Ulp(c)
             m == UnitsFloor(c) \div u
             twiceFrac == 2 * ((UnitsFloor(c) % u) * 25 + UnitsRem(c))
             up == IF twiceFrac > 25 * u THEN 1
                   ELSE IF twiceFrac = 25 * u /\ m % 2 = 1 THEN 1
                   ELSE 0
         IN (m + up) * u

\* The stored float32 equals the configured value c/100 exactly.
IsExactFloat32(c) ==
    UnitsRem(c) = 0 /\ UnitsFloor(c) % Ulp(c) = 0

-----------------------------------------------------------------------------
(* The mapping table *)

\* list(table.keys()) : the rules in dict order (ascending for the tables here).
RECURSIVE SortedSeq(_)
SortedSeq(S) ==
    IF S = {} THEN <<>>
    ELSE LET m == CHOOSE x \in S : \A y \in S : x <= y
         IN <<m>> \o SortedSeq(S \ {m})

RuleOrder(table) == SortedSeq(DOMAIN table)

\* np.isin(data, list(table.keys())) at one pixel
HasRule(table, v) == v \in DOMAIN table

-----------------------------------------------------------------------------
(* class_reconciliation.py : apply_class_mapping *)

\* A loop that stops one rule short of the end of the table.
RECURSIVE PlainRulesStopEarly(_, _, _, _, _)
PlainRulesStopEarly(order, table, clouds, src, out) ==
    IF Len(order) <= 1 THEN out
    ELSE LET k == Head(order)
             v == IF k = CloudClass /\ clouds THEN NoData ELSE table[k].target
         IN PlainRulesStopEarly(Tail(order), table, clouds, src,
                                Masked(out, src, k, v))

RECURSIVE PlainRules(_, _, _, _, _)
PlainRules(order, table, clouds, src, out) ==
    IF order = <<>> THEN out
    ELSE LET k == Head(order)
             v == IF k = CloudClass /\ clouds THEN NoData ELSE table[k].target
         IN PlainRules(Tail(order), table, clouds, src, Masked(out, src, k, v))

\* An unmapped mask that selects every pixel.
ClearsEveryPixel(table, src, out, v) == Full(Height(src), Width(src), v)

\* unmapped_mask = ~np.isin(data, keys); output[unmapped_mask] = -9999
ClearUnmapped(table, src, out, v) ==
    [i \in 1..Height(src) |->
        [j \in 1..Width(src) |->
            IF HasRule(table, src[i][j]) THEN out[i][j] ELSE v]]

\* A count that takes every pixel of the raster for unmapped.
CountsEveryPixel(table, src) == Height(src) * Width(src)

UnmappedCount(table, src) ==
    LET NoRule(i, j) == ~HasRule(table, src[i][j])
    IN CountWhere(src, NoRule)

ApplyClassMapping(table, clouds, src) ==
    LET init == Full(Height(src), Width(src), NoData)
        looped == PlainRules(RuleOrder(table), table, clouds, src, init)
    IN [fuel |-> ClearUnmapped(table, src, looped, NoData),
        confidence |-> <<>>,
        unmapped |-> UnmappedCount(table, src)]

-----------------------------------------------------------------------------
(* class_reconciliation_v1.py : apply_class_mapping_with_confidence *)

RECURSIVE ConfidenceRules(_, _, _, _, _)
ConfidenceRules(order, table, clouds, src, out) ==
    IF order = <<>> THEN out
    ELSE LET k == Head(order)
             c == IF k = CloudClass /\ clouds THEN ToFloat32(0)
                  ELSE ToFloat32(table[k].confidence)
         IN ConfidenceRules(Tail(order), table, clouds, src, Masked(out, src, k, c))

ApplyClassMappingWithConfidence(table, clouds, src, confidence_requested) ==
    LET h == Height(src)
        w == Width(src)
        fuel == PlainRules(RuleOrder(table), table, clouds, src, Full(h, w, NoData))
        conf == ConfidenceRules(RuleOrder(table), table, clouds, src,
                                Full(h, w, ToFloat32(0)))
    IN [fuel |-> ClearUnmapped(table, src, fuel, NoData),
        confidence |-> IF confidence_requested
                       THEN ClearUnmapped(table, src, conf, ToFloat32(0))
                       ELSE <<>>,
        unmapped |-> UnmappedCount(table, src)]

-----------------------------------------------------------------------------
(* class_reconciliation_confidence_based.py : apply_mapping_with_confidence *)
(* The loop has no clouds_as_nodata branch, and unmapped pixels keep the    *)
(* initial fill of the output arrays.                                       *)

SimpleApplyMapping(table, src) ==
    LET h == Height(src)
        w == Width(src)
    IN [fuel |-> PlainRules(RuleOrder(table), table, FALSE, src, Full(h, w, NoData)),
        confidence |-> ConfidenceRules(RuleOrder(table), table, FALSE, src,
                                       Full(h, w, ToFloat32(0))),
        unmapped |-> UnmappedCount(table, src)]

-----------------------------------------------------------------------------
(* class_reconciliation_enhanced.py : apply_class_mapping *)
(* unmapped_mask = (data > 0) & (output == -9999)                           *)

AlignedUnmappedCount(src, out) ==
    LET Unmapped(i, j) == src[i][j] > 0 /\ out[i][j] = NoData
    IN CountWhere(src, Unmapped)

AlignedApplyClassMapping(table, src) ==
    LET out == PlainRules(RuleOrder(table), table, FALSE, src,
                          Full(Height(src), Width(src), NoData))
    IN [fuel |-> out,
        confidence |-> <<>>,
        unmapped |-> AlignedUnmappedCount(src, out)]

-----------------------------------------------------------------------------
(* fill_nodata_majority (class_reconciliation.py and class_reconciliation_v1) *)

\* ndimage.generic_filter(..., size=window_size, mode='constant', cval=-9999):
\* the window centred on (i, j); positions outside the raster read cval.
WindowOffsets(size) == LET half == size \div 2 IN (-half)..half

At(src, i, j) ==
    IF i \in 1..Height(src) /\ j \in 1..Width(src) THEN src[i][j] ELSE NoData

WindowCells(size) == WindowOffsets(size) \X WindowOffsets(size)

\* majority_filter(arr): valid_values = arr[arr != -9999]; np.unique returns the
\* values in ascending order with their counts; np.argmax takes the first maximum.
\* A majority vote whose ties go to the largest value.
MajorityFilterLargest(src, i, j, size) ==
    LET cells == WindowCells(size)
        valid == {d \in cells : At(src, i + d[1], j + d[2]) # NoData}
        unique == {At(src, i + d[1], j + d[2]) : d \in valid}
        count(v) == Cardinality({d \in valid : At(src, i + d[1], j + d[2]) = v})
    IN IF valid = {} THEN NoData
       ELSE CHOOSE v \in unique :
                \A u \in unique :
                    count(v) > count(u) \/ (count(v) = count(u) /\ v >= u)

\* A vote that takes the smallest valid value, whatever the counts.
MajorityFilterSmallest(src, i, j, size) ==
    LET valid == {At(src, i + d[1], j + d[2]) : d \in WindowCells(size)} \ {NoData}
    IN IF valid = {} THEN NoData
       ELSE CHOOSE v \in valid : \A u \in valid : v <= u

MajorityFilter(src, i, j, size) ==
    LET cells == WindowCells(size)
        valid == {d \in cells : At(src, i + d[1], j + d[2]) # NoData}
        unique == {At(src, i + d[1], j + d[2]) : d \in valid}
        count(v) == Cardinality({d \in valid : At(src, i + d[1], j + d[2]) = v})
    IN IF valid = {} THEN NoData
       ELSE CHOOSE v \in unique :
                \A u \in unique :
                    count(v) > count(u) \/ (count(v) = count(u) /\ v <= u)

GenericFilter(src, size) ==
    [i \in 1..Height(src) |->
        [j \in 1..Width(src) |-> MajorityFilter(src, i, j, size)]]

\* A fill that keeps the filtered raster as it is.
KeepFiltered(src, filtered) == filtered

\* filled_data[~nodata_mask] = data[~nodata_mask]
PreserveValid(src, filtered) ==
    [i \in 1..Height(src) |->
        [j \in 1..Width(src) |->
            IF src[i][j] # NoData THEN src[i][j] ELSE filtered[i][j]]]

HasNoData(src) == \E p \in Pixels(src) : src[p[1]][p[2]] = NoData

\* A fill without the fast path and without the restore of valid pixels.
FillFiltersEveryPixel(src, size) == GenericFilter(src, size)

FillNodataMajority(src, size) ==
    IF ~HasNoData(src) THEN src      \* shutil.copy2(input_path, output_path)
    ELSE PreserveValid(src, GenericFilter(src, size))


-----------------------------------------------------------------------------
(* class_reconciliation_enhanced.py : the reference grid and                *)
(* align_bounds_to_grid.  Coordinates and cell sizes are exact numbers      *)
(* counted in a common unit.                                                *)

\* set_default_landfire_grid
DefaultGrid == [origin_x |-> -2362425, origin_y |-> 3310005, res |-> <<30, 30>>]

\* The lattices of the reference rasters load_reference_grid may read:
\* origin (transform.c, transform.f) and cell size (transform.a, -transform.e).
ReferenceGrids ==
    { [origin_x |-> 0, origin_y |-> 0, res |-> <<3, 3>>],
      [origin_x |-> -7, origin_y |-> 5, res |-> <<2, 2>>],
      [origin_x |-> 1, origin_y |-> -2, res |-> <<30, 30>>] }

\* The working resolutions align_bounds_to_grid is called with: 10 when the
\* input resolution is maintained, else the reference cell size, or any other
\* positive resolution a caller passes.
WorkingResolutions(ref_res) == {10, ref_res, 1, 4}

\* np.floor(a / b) and np.ceil(a / b) for b > 0
FloorDiv(a, b) == a \div b
CeilDiv(a, b) == -((-a) \div b)

\* A snap that forgets that the lattice starts at the grid origin.
SnapDownAbsolute(value, origin, ref_res) == FloorDiv(value, ref_res) * ref_res

\* origin + np.floor((value - origin) / ref_res) * ref_res
SnapDown(value, origin, ref_res) ==
    origin + FloorDiv(value - origin, ref_res) * ref_res

\* A snap of a maximum edge that rounds down like the minimum edges.
SnapUpFloor(value, origin, ref_res) ==
    origin + FloorDiv(value - origin, ref_res) * ref_res

\* origin + np.ceil((value - origin) / ref_res) * ref_res
SnapUp(value, origin, ref_res) ==
    origin + CeilDiv(value - origin, ref_res) * ref_res

\* int(x / y) for x >= 0, y > 0
IntDiv(x, y) == x \div y

AlignBoundsToGrid(bounds, input_res, origin_x, origin_y, res) ==
    LET ref_res == res[1]
        aligned_minx == SnapDown(bounds.minx, origin_x, ref_res)
        aligned_maxy == SnapUp(bounds.maxy, origin_y, ref_res)
        aligned_maxx == SnapUp(bounds.maxx, origin_x, ref_res)
        aligned_miny == SnapDown(bounds.miny, origin_y, ref_res)
    IN [bounds |-> [minx |-> aligned_minx, miny |-> aligned_miny,
                    maxx |-> aligned_maxx, maxy |-> aligned_maxy],
        \* Affine(input_res, 0, aligned_minx, 0, -input_res, aligned_maxy)
        transform |-> [a |-> input_res, c |-> aligned_minx,
                       e |-> -input_res, f |-> aligned_maxy],
        width |-> IntDiv(aligned_maxx - aligned_minx, input_res),
        height |-> IntDiv(aligned_maxy - aligned_miny, input_res)]

Offsets == (-MaxOffset)..MaxOffset

\* Bounding boxes with minx < maxx and miny < maxy near the grid origin.
BoundingBoxes(origin_x, origin_y) ==
    {[minx |-> origin_x + x1, miny |-> origin_y + y1,
      maxx |-> origin_x + x2, maxy |-> origin_y + y2] :
        x1 \in Offsets, x2 \in Offsets, y1 \in Offsets, y2 \in Offsets}

ProperBox(b) == b.minx < b.maxx /\ b.miny < b.maxy

NoAlignment == [bounds |-> <<>>, transform |-> <<>>, width |-> 0, height |-> 0]
NoAlignInput == [bounds |-> <<>>, input_res |-> 0]

InitAlignIdle ==
    /\ apc = "ready"
    /\ grid_origin_x = DefaultGrid.origin_x
    /\ grid_origin_y = DefaultGrid.origin_y
    /\ reference_res = DefaultGrid.res
    /\ align_input = NoAlignInput
    /\ aligned = NoAlignment

\* load_reference_grid(reference_path)
LoadReferenceGrid ==
    /\ apc = "ready"
    /\ \E ref \in ReferenceGrids :
        /\ grid_origin_x' = ref.origin_x
        /\ grid_origin_y' = ref.origin_y
        /\ reference_res' = ref.res
    /\ UNCHANGED <<apc, align_input, aligned>>
    /\ UNCHANGED <<rasterVars, tableVars, detectVars, runVars, configVars, serviceVars>>

\* align_bounds_to_grid(bounds, input_res)
AlignBounds ==
    /\ apc = "ready"
    /\ \E b \in BoundingBoxes(grid_origin_x, grid_origin_y),
          input_res \in WorkingResolutions(reference_res[1]) :
        /\ ProperBox(b)
        /\ align_input' = [bounds |-> b, input_res |-> input_res]
        /\ aligned' = AlignBoundsToGrid(b, input_res, grid_origin_x,
                                        grid_origin_y, reference_res)
    /\ apc' = "aligned"
    /\ UNCHANGED <<grid_origin_x, grid_origin_y, reference_res>>
    /\ UNCHANGED <<rasterVars, tableVars, detectVars, runVars, configVars, serviceVars>>

NextAlign == LoadReferenceGrid \/ AlignBounds

-----------------------------------------------------------------------------
(* geospatial-service/app/services/class_mapper.py :                        *)
(* ClassReconciler.detect_classification_system                             *)

\* models/dataset.py : ClassificationSystem
ClassificationSystem == {"FBFM40", "SENTINEL_FUEL_2024", "LANDFIRE_US", "UNKNOWN"}

Range(seq) == {seq[i] : i \in DOMAIN seq}

\* set(range(1, 41)) | {91, 92, 93, 98, 99}
Fbfm40Classes == (1..40) \cup {91, 92, 93, 98, 99}

LandfirePatterns == {101, 102, 103, 108, 109, 110, 201, 202, 301, 902, 998}

SentinelPatterns == {1, 2, 3, 4, 5, 10, 11, 20, 21, 22, 30, 31, 100, 101, 102, 103}

SentinelMarkers == {10, 20, 30, 100}

SeqMax(seq) == CHOOSE x \in Range(seq) : \A y \in Range(seq) : y <= x
SeqMin(seq) == CHOOSE x \in Range(seq) : \A y \in Range(seq) : x <= y

\* A detector that tries the Sentinel signature before the LANDFIRE one.
DetectSentinelFirst(classes) ==
    LET class_set == Range(classes)
    IN IF classes = <<>> THEN "UNKNOWN"
       ELSE IF /\ class_set \subseteq Fbfm40Classes
               /\ class_set \cap (1..15) # {}
       THEN "FBFM40"
       ELSE IF Cardinality(class_set \cap SentinelPatterns) >= 3
       THEN "SENTINEL_FUEL_2024"
       ELSE IF /\ \E c \in class_set : c > 100 /\ c < 1000
               /\ class_set \cap LandfirePatterns # {}
       THEN "LANDFIRE_US"
       ELSE IF /\ \A c \in class_set : c >= 1 /\ c <= 150
               /\ class_set \cap SentinelMarkers # {}
       THEN "SENTINEL_FUEL_2024"
       ELSE IF \E c \in class_set : c > 300 THEN "LANDFIRE_US"
       ELSE "UNKNOWN"

\* A detector without the guard for the empty list: max() of an empty
\* sequence raises ValueError.
DetectWithoutEmptyGuard(classes) ==
    IF classes = <<>> THEN "ValueError"
    ELSE IF \E i \in DOMAIN classes : classes[i] > 300 THEN "LANDFIRE_US"
    ELSE "UNKNOWN"

DetectClassificationSystem(classes) ==
    IF classes = <<>> THEN "UNKNOWN"
    ELSE LET class_set == Range(classes)
             max_value == SeqMax(classes)
             min_value == SeqMin(classes)
         IN IF /\ class_set \subseteq Fbfm40Classes
               /\ \E c \in 1..15 : c \in class_set
            THEN "FBFM40"
            ELSE IF /\ \E i \in DOMAIN classes : classes[i] > 100 /\ classes[i] < 1000
                    /\ \E i \in DOMAIN classes : classes[i] \in LandfirePatterns
            THEN "LANDFIRE_US"
            ELSE IF Cardinality(class_set \cap SentinelPatterns) >= 3
            THEN "SENTINEL_FUEL_2024"
            ELSE IF /\ max_value <= 150
                    /\ min_value >= 1
                    /\ \E i \in DOMAIN classes : classes[i] \in SentinelMarkers
            THEN "SENTINEL_FUEL_2024"
            ELSE IF max_value > 300
            THEN "LANDFIRE_US"
            ELSE "UNKNOWN"

\* class_reconciliation_v1.py : expected_source_classes, the full code set of
\* the default source scheme (ESRI land cover).
ExpectedSourceClasses == <<1, 2, 4, 5, 7, 8, 9, 10, 11>>

\* Codes that reach every branch of the detector.
DetectPalette == {-1, 0, 1, 10, 20, 41, 100, 101, 102, 500, 1000}

RECURSIVE SeqsUpTo(_, _)
SeqsUpTo(S, n) ==
    IF n = 0 THEN {<<>>}
    ELSE LET shorter == SeqsUpTo(S, n - 1)
         IN shorter \cup {Append(q, x) : q \in shorter, x \in S}


\* Dictionary keys: a Python int, and the text str() makes of it.
IntKey(n) == <<"int", n>>
StrKey(key) == <<"str", key[2]>>      \* str(key), what json.dump writes

\* known_mappings[system]["mappings_to_fbfm40"] of _load_mapping_database:
\* <<source code, target, confidence in hundredths>>
SentinelRules ==
    << <<1, 1, 95>>, <<2, 2, 87>>, <<3, 3, 91>>, <<4, 4, 82>>, <<5, 5, 89>>,
       <<10, 14, 91>>, <<11, 15, 88>>, <<20, 8, 89>>, <<21, 9, 85>>,
       <<22, 10, 87>>, <<30, 11, 75>>, <<31, 12, 78>>, <<100, 91, 98>>,
       <<101, 93, 96>>, <<102, 98, 99>>, <<103, 99, 94>> >>

LandfireRules ==
    << <<101, 1, 93>>, <<102, 2, 88>>, <<103, 3, 91>>, <<104, 4, 89>>,
       <<105, 5, 87>>, <<106, 6, 85>>, <<107, 7, 83>>, <<108, 8, 92>>,
       <<109, 9, 89>>, <<110, 10, 91>>, <<201, 14, 85>>, <<202, 15, 87>>,
       <<301, 11, 78>>, <<302, 12, 81>>, <<303, 13, 84>>, <<901, 91, 97>>,
       <<902, 92, 99>>, <<903, 93, 95>>, <<998, 98, 99>>, <<999, 99, 92>> >>

\* CANADIAN_FBP: the keys are the names "C1".."C7", "D1", "D2", "M1", "M2",
\* "S1".."S3", "O1a", "O1b", "NF", here numbered in that order.
CanadianRules ==
    << <<1, 8, 89>>, <<2, 9, 87>>, <<3, 10, 85>>, <<4, 10, 83>>, <<5, 11, 81>>,
       <<6, 12, 79>>, <<7, 13, 77>>, <<8, 9, 91>>, <<9, 9, 89>>, <<10, 10, 85>>,
       <<11, 10, 83>>, <<12, 11, 87>>, <<13, 12, 85>>, <<14, 13, 83>>,
       <<15, 1, 92>>, <<16, 2, 90>>, <<17, 99, 95>> >>

NameKey(n) == <<"name", n>>

\* A dictionary of rules under integer keys, or under name keys.
RulesByKey(rules, by_name) ==
    [key \in {IF by_name THEN NameKey(rules[i][1]) ELSE IntKey(rules[i][1])
                 : i \in DOMAIN rules} |->
        LET i == CHOOSE j \in DOMAIN rules :
                    key = IF by_name THEN NameKey(rules[j][1])
                          ELSE IntKey(rules[j][1])
        IN [target |-> rules[i][2], confidence |-> rules[i][3]]]

\* self.known_mappings: the systems that have "mappings_to_fbfm40"; the entry
\* of FBFM40 has none and is never looked up.
KnownMappings ==
    [system \in {"SENTINEL_FUEL_2024", "LANDFIRE_US", "CANADIAN_FBP"} |->
        IF system = "SENTINEL_FUEL_2024" THEN RulesByKey(SentinelRules, FALSE)
        ELSE IF system = "LANDFIRE_US" THEN RulesByKey(LandfireRules, FALSE)
        ELSE RulesByKey(CanadianRules, TRUE)]

\* The source codes of a registered system, in the order of its table.
SystemCodes(rules) == [i \in DOMAIN rules |-> rules[i][1]]

\* The lists handed to the detector: every short list over the palette, the
\* code set of the default source scheme, and the full code sets of the
\* registered systems with integer codes.
DetectInputs ==
    SeqsUpTo(DetectPalette, MaxCodes)
        \cup {ExpectedSourceClasses, SystemCodes(SentinelRules),
               SystemCodes(LandfireRules)}

\* A ClassMapping with the defaults of the model class.
NewClassMapping(source_system) ==
    [source_system |-> source_system, mapping_required |-> TRUE,
     direct_mapping |-> FALSE, auto_mappable |-> FALSE, mappings |-> <<>>,
     confidence_scores |-> <<>>, unmapped_classes |-> <<>>,
     auto_mapped_count |-> 0, manual_review_count |-> 0]

\* cls_key = str(cls) if cls not in system_mappings else cls
ClsKey(cls, system_mappings) ==
    IF IntKey(cls) \in DOMAIN system_mappings THEN IntKey(cls)
    ELSE StrKey(IntKey(cls))

\* create_class_mapping(source_system, detected_classes, confidence_threshold)
CreateClassMapping(source_system, classes, threshold) ==
    IF source_system = "FBFM40"
    THEN [NewClassMapping("FBFM40") EXCEPT
            !.mapping_required = FALSE, !.direct_mapping = TRUE,
            !.auto_mappable = TRUE,
            !.mappings = [cls \in Range(classes) |-> cls],
            !.confidence_scores = [cls \in Range(classes) |-> 100],
            !.auto_mapped_count = Len(classes)]
    ELSE IF source_system \notin DOMAIN KnownMappings
    THEN [NewClassMapping(source_system) EXCEPT
            !.unmapped_classes = classes,
            !.manual_review_count = Len(classes)]
    ELSE LET system_mappings == KnownMappings[source_system]
             Known(cls) == ClsKey(cls, system_mappings) \in DOMAIN system_mappings
             Rule(cls) == system_mappings[ClsKey(cls, system_mappings)]
             High(cls) == Known(cls) /\ Rule(cls).confidence >= threshold
             \* a dict: one entry for each distinct code that has a rule
             mapped == {cls \in Range(classes) : Known(cls)}
             Unknown(cls) == ~Known(cls)
             unmapped == SelectSeq(classes, Unknown)
             \* counted once for every element of the list
             high_confidence_count == Len(SelectSeq(classes, High))
             \* len(mappings) / len(detected_classes) >= 0.7 and
             \* high_confidence_count / len(detected_classes) >= 0.5
             auto_mappable ==
                 /\ classes # <<>>
                 /\ 10 * Cardinality(mapped) >= 7 * Len(classes)
                 /\ 2 * high_confidence_count >= Len(classes)
         IN [NewClassMapping(source_system) EXCEPT
                !.auto_mappable = auto_mappable,
                !.mappings = [cls \in mapped |-> Rule(cls).target],
                !.confidence_scores = [cls \in mapped |-> Rule(cls).confidence],
                !.unmapped_classes = unmapped,
                !.auto_mapped_count = Cardinality(mapped),
                !.manual_review_count = Len(unmapped)]

\* The source systems a caller names, and the thresholds it passes (0.8 is
\* the default), in hundredths.
SourceSystems ==
    {"FBFM40", "SENTINEL_FUEL_2024", "LANDFIRE_US", "CANADIAN_FBP", "UNKNOWN"}
Thresholds == {80, 90}

NoMapping == NewClassMapping("none")

InitDetectIdle ==
    /\ dpc = "ready"
    /\ detected_classes = <<>>
    /\ detected_system = "none"
    /\ confidence_threshold = 0
    /\ mapping_result = NoMapping

\* await class_reconciler.detect_classification_system(detected_classes)
Detect ==
    /\ dpc = "ready"
    /\ \E classes \in DetectInputs :
        /\ detected_classes' = classes
        /\ detected_system' = DetectClassificationSystem(classes)
    /\ dpc' = "detected"
    /\ UNCHANGED <<confidence_threshold, mapping_result>>
    /\ UNCHANGED <<rasterVars, tableVars, alignVars, runVars, configVars, serviceVars>>

\* await class_reconciler.create_class_mapping(source_system,
\*     detected_classes, confidence_threshold)
CreateMapping ==
    /\ dpc = "detected"
    /\ \E source_system \in SourceSystems, threshold \in Thresholds :
        /\ confidence_threshold' = threshold
        /\ mapping_result' = CreateClassMapping(source_system, detected_classes,
                                                threshold)
    /\ dpc' = "mapped"
    /\ UNCHANGED <<detected_classes, detected_system>>
    /\ UNCHANGED <<rasterVars, tableVars, alignVars, runVars, configVars, serviceVars>>

NextDetect == Detect \/ CreateMapping

-----------------------------------------------------------------------------
(* The mapping table of class_reconciliation_v1.py, its validation suite and *)
(* its persistence as a JSON document.  A dictionary key is a pair of its    *)
(* Python type and its value, so that the integer 91 and the string "91"     *)
(* are different keys.                                                       *)


DefaultDescriptions ==
    ( IntKey(91) :> "NB1 - Urban/Developed" @@
      IntKey(92) :> "NB2 - Snow/Ice" @@
      IntKey(98) :> "NB8 - Open Water" @@
      IntKey(99) :> "NB9 - Barren" @@
      IntKey(102) :> "GR2 - Low load, dry climate grass" @@
      IntKey(121) :> "GS1 - Low load, dry climate grass-shrub" @@
      IntKey(183) :> "TL3 - Moderate load conifer litter" @@
      IntKey(NoData) :> "NoData" )

ValidFbfm40Classes ==
    <<91, 92, 98, 99, 102, 121, 183, 186, 161, 162, 163, 164, 165,
      181, 182, 184, 185, 187, 188, 189, 201, 202, 203, 204>>

\* validation_results = {}
NoResults == [test \in {} |-> FALSE]

\* self.class_mapping = {k: v['target'] ...}
ClassMapping(table) == [k \in DOMAIN table |-> table[k].target]

\* A completeness test that never finds a missing class.
CompletenessAlwaysPasses(table, expected) ==
    [passed |-> TRUE, result |-> {}]

\* validate_mapping_completeness
ValidateMappingCompleteness(table, expected) ==
    LET missing_classes == Range(expected) \ DOMAIN ClassMapping(table)
    IN [passed |-> missing_classes = {}, result |-> missing_classes]

\* validate_target_classes
ValidateTargetClasses(table, valid) ==
    LET invalid_targets ==
            {ClassMapping(table)[k] : k \in DOMAIN table} \ Range(valid)
    IN [passed |-> invalid_targets = {}, result |-> invalid_targets]

\* validation_rules = {1: [98], 7: [91], 9: [92]}
SemanticRules == (1 :> {98} @@ 7 :> {91} @@ 9 :> {92})

\* validate_semantic_logic: one warning per rule whose source is mapped to a
\* target outside the rule's list
ValidateSemanticLogic(table) ==
    LET warnings == {<<source, ClassMapping(table)[source]>> :
                        source \in {k \in DOMAIN SemanticRules :
                            /\ k \in DOMAIN table
                            /\ ClassMapping(table)[k] \notin SemanticRules[k]}}
    IN [passed |-> warnings = {}, result |-> warnings]

\* validate_confidence_distribution: always passes; confidences in hundredths
ValidateConfidenceDistribution(table) ==
    LET keys == DOMAIN table
    IN [passed |-> TRUE,
        result |->
          [high_confidence_count |->
               Cardinality({k \in keys : table[k].confidence >= 80}),
           medium_confidence_count |->
               Cardinality({k \in keys : /\ 60 <= table[k].confidence
                                         /\ table[k].confidence < 80}),
           low_confidence_count |->
               Cardinality({k \in keys : table[k].confidence < 60}),
           total_mappings |-> Cardinality(keys)]]

\* run_validation_suite: the results of the four tests, and all_passed over
\* the first three
ValidationSuite(table, expected, valid) ==
    LET results ==
            [completeness |-> ValidateMappingCompleteness(table, expected),
             target_validity |-> ValidateTargetClasses(table, valid),
             semantic_logic |-> ValidateSemanticLogic(table),
             confidence_analysis |-> ValidateConfidenceDistribution(table)]
    IN [validation_passed |-> /\ results.completeness.passed
                              /\ results.target_validity.passed
                              /\ results.semantic_logic.passed,
        validation_results |-> results]

\* json.dump of a dictionary: every key becomes its string
JsonObject(dict) ==
    [sk \in {StrKey(k) : k \in DOMAIN dict} |->
        dict[CHOOSE k \in DOMAIN dict : StrKey(k) = sk]]

\* The engine's attributes as one record.
Engine(table, descriptions, expected, valid, passed, results) ==
    [mapping_with_metadata |-> table,
     fbfm40_descriptions |-> descriptions,
     expected_source_classes |-> expected,
     valid_fbfm40_classes |-> valid,
     validation_passed |-> passed,
     validation_results |-> results]

\* load_default_mapping, then validation_passed = False, validation_results = {}
DefaultEngine ==
    Engine(DefaultMapping, DefaultDescriptions, ExpectedSourceClasses,
           ValidFbfm40Classes, FALSE, NoResults)

\* save_mapping_config: the document json.dump writes and json.load reads
\* back; the rules are listed in the table's order.
SavedDocument(engine) ==
    LET table == engine.mapping_with_metadata
        order == RuleOrder(table)
    IN [metadata |-> [name |-> "ESRI_PFA_to_FBFM40_Mapping", version |-> "2.0"],
        validation_info |->
            [validation_passed |-> engine.validation_passed,
             validation_results |-> engine.validation_results],
        mappings |->
            [i \in 1..Len(order) |->
                [source_class |-> order[i],
                 target_class |-> table[order[i]].target,
                 confidence |-> table[order[i]].confidence,
                 rationale |-> table[order[i]].rationale]],
        fbfm40_descriptions |-> JsonObject(engine.fbfm40_descriptions),
        expected_source_classes |-> engine.expected_source_classes,
        valid_fbfm40_classes |-> engine.valid_fbfm40_classes]

\* load_mapping_config on an engine that has all its attributes: the rules
\* and the three registries are replaced, validation_info is not read.
LoadMappingConfig(engine, config) ==
    [engine EXCEPT
        !.mapping_with_metadata =
            [source_class \in {config.mappings[i].source_class :
                                  i \in 1..Len(config.mappings)} |->
                LET mapping == config.mappings[
                        CHOOSE i \in 1..Len(config.mappings) :
                            /\ config.mappings[i].source_class = source_class
                            /\ \A j \in (i+1)..Len(config.mappings) :
                                 config.mappings[j].source_class # source_class]
                IN [target |-> mapping.target_class,
                    confidence |-> mapping.confidence,
                    rationale |-> mapping.rationale]],
        !.fbfm40_descriptions = config.fbfm40_descriptions,
        !.expected_source_classes = config.expected_source_classes,
        !.valid_fbfm40_classes = config.valid_fbfm40_classes]

\* The attributes __init__ has assigned when it calls load_mapping_config:
\* none; load_default_mapping, which assigns them, is the other branch.
AttributesAtConstruction == {}

AttributesOfEngine ==
    {"mapping_with_metadata", "class_mapping", "clouds_as_nodata",
     "fbfm40_descriptions", "expected_source_classes", "valid_fbfm40_classes",
     "validation_passed", "validation_results"}

\* config.get(key, self.<attribute>) evaluates its default before the call:
\* reading an attribute that was never assigned raises AttributeError.
LoadRaises(assigned) ==
    ~({"fbfm40_descriptions", "expected_source_classes",
       "valid_fbfm40_classes"} \subseteq assigned)

\* The configuration file: whether it exists, the document in it, and the
\* engine it was saved from.
NoFile ==
    [exists |-> FALSE, document |-> SavedDocument(DefaultEngine),
     saved |-> DefaultEngine]

\* The outcome of building an engine from a file: how it was built, whether
\* that raised, the engine, and the file that was read.
NotLoaded ==
    [how |-> "none", status |-> "none", engine |-> DefaultEngine,
     read |-> NoFile]

InitConfigIdle ==
    /\ config_file = NoFile
    /\ loaded = NotLoaded

-----------------------------------------------------------------------------
(* The upload requests of the service (geospatial-service/app/main.py)      *)

\* Two requests can be in flight; NamedTemporaryFile gives each of them
\* fresh names, so a temporary file is the pair of a request and a suffix.
Requests == {"q1", "q2"}

Endpoints == {"process-fuel-map", "validate-file", "detect-classification"}

DatasetTypes == {"regional", "global"}

RequestedSystems == {"FBFM40", "LANDFIRE_US"}

\* temp_files is the handler's list, response what it returned, and
\* cleanup_task whether background_tasks holds cleanup_temp_files.
NoRequest ==
    [endpoint |-> "none", pc |-> "done", temp_files |-> {},
     dataset_type |-> "regional", classification_system |-> "FBFM40",
     response |-> "none", cleanup_task |-> FALSE]

NewRequest(endpoint, dataset_type, classification_system) ==
    [NoRequest EXCEPT !.endpoint = endpoint, !.pc = "start",
                      !.dataset_type = dataset_type,
                      !.classification_system = classification_system]

ServiceRequests ==
    {NewRequest(e, "regional", "FBFM40") : e \in Endpoints}
    \cup {NewRequest("process-fuel-map", t, c) :
              t \in DatasetTypes, c \in RequestedSystems}

InitServiceIdle ==
    /\ request = [q \in Requests |-> NoRequest]
    /\ tmp_on_disk = {}

InitService ==
    /\ request \in [Requests -> ServiceRequests]
    /\ tmp_on_disk = {}

ServiceOthersUnchanged ==
    UNCHANGED <<rasterVars, tableVars, alignVars, detectVars, runVars,
                configVars>>

UploadTemp(q) == <<q, ".tif">>
ReconciledTemp(q) == <<q, "_reconciled.tif">>

\* The temporary files a request created.
CreatedBy(q) == {f \in tmp_on_disk : f[1] = q}

Responds(q, response) ==
    request' = [request EXCEPT ![q].pc = "done", ![q].response = response]

\* Where an exception raised in the handler's try block lands: the
\* except clause of process_fuel_map, the finally clause of the others.
Handler(q) ==
    IF request[q].endpoint = "process-fuel-map" THEN "except" ELSE "finally"

\* The unlink loop the three handlers share: every file of the list that
\* exists is removed.
UnlinkTempFiles(q) == tmp_on_disk \ request[q].temp_files

\* process_fuel_map up to the upload: the file name check, the storage
\* paths, and the early return for a dataset that was processed before.
ProcessAccept(q) ==
    /\ request[q].endpoint = "process-fuel-map"
    /\ request[q].pc = "start"
    /\ \/ Responds(q, "http-error")
       \/ Responds(q, "already-processed")
       \/ request' = [request EXCEPT ![q].pc = "except"]
       \/ request' = [request EXCEPT ![q].pc = "store"]
    /\ UNCHANGED tmp_on_disk
    /\ ServiceOthersUnchanged

\* The upload is copied into a NamedTemporaryFile(delete=False); the path
\* enters temp_files after the copy, so a copy that raises leaves a file
\* that is in no list.
StoreUpload(q) ==
    /\ \/ request[q].pc = "store"
       \/ /\ request[q].endpoint \in {"validate-file", "detect-classification"}
          /\ request[q].pc = "start"
    /\ tmp_on_disk' = tmp_on_disk \cup {UploadTemp(q)}
    /\ \/ request' = [request EXCEPT
                         ![q].pc = "validate",
                         ![q].temp_files = @ \cup {UploadTemp(q)}]
       \/ request' = [request EXCEPT ![q].pc = Handler(q)]
    /\ ServiceOthersUnchanged

\* validate_geotiff on the stored upload.  process_fuel_map returns from
\* inside the try block when the file is invalid; validate_file returns the
\* validation; detect_classification goes on when the file is valid.
ValidateGeotiff(q) ==
    /\ request[q].pc = "validate"
    /\ \E is_valid \in BOOLEAN, raised \in BOOLEAN :
          request' =
              IF raised
              THEN [request EXCEPT ![q].pc = Handler(q)]
              ELSE IF request[q].endpoint = "process-fuel-map"
              THEN IF is_valid
                   THEN [request EXCEPT ![q].pc = "save_original"]
                   ELSE [request EXCEPT ![q].pc = "done",
                                        ![q].response = "validation-failed"]
              ELSE IF request[q].endpoint = "validate-file"
              THEN [request EXCEPT ![q].pc = "finally",
                                   ![q].response = "success"]
              ELSE IF is_valid
                   THEN [request EXCEPT ![q].pc = "detect"]
                   ELSE [request EXCEPT ![q].pc = "finally",
                                        ![q].response = "validation-failed"]
    /\ UNCHANGED tmp_on_disk
    /\ ServiceOthersUnchanged

\* detect_classification: the detection and the mapping, then the return.
DetectAndMap(q) ==
    /\ request[q].pc = "detect"
    /\ \E raised \in BOOLEAN :
          request' = [request EXCEPT
                         ![q].pc = "finally",
                         ![q].response = IF raised THEN "none" ELSE "success"]
    /\ UNCHANGED tmp_on_disk
    /\ ServiceOthersUnchanged

\* process_fuel_map, step 2: the original and its metadata are stored.
SaveOriginal(q) ==
    /\ request[q].pc = "save_original"
    /\ \/ request' = [request EXCEPT ![q].pc = "convert"]
       \/ request' = [request EXCEPT ![q].pc = "except"]
    /\ UNCHANGED tmp_on_disk
    /\ ServiceOthersUnchanged

\* process_fuel_map, step 3: a regional FBFM40 dataset gets a second
\* temporary file for the reconciled raster (the reconciliation's own
\* exceptions are caught and fall back to the original); every branch ends
\* with convert_to_cog, and a failed conversion returns from inside the try
\* block.
ProcessDataset(q) ==
    /\ request[q].pc = "convert"
    /\ LET reconciles == /\ request[q].dataset_type # "global"
                         /\ request[q].classification_system = "FBFM40"
           created == IF reconciles THEN {ReconciledTemp(q)} ELSE {}
       IN  /\ tmp_on_disk' = tmp_on_disk \cup created
           /\ \E cog_success \in BOOLEAN, raised \in BOOLEAN :
                 request' =
                     [request EXCEPT
                         ![q].temp_files = @ \cup created,
                         ![q].pc = IF raised THEN "except"
                                   ELSE IF cog_success THEN "schedule"
                                   ELSE "done",
                         ![q].response = IF raised \/ cog_success THEN @
                                         ELSE "cog-failed"]
    /\ ServiceOthersUnchanged

\* The success path: cleanup_temp_files is handed to background_tasks and
\* the result is returned.
ScheduleCleanup(q) ==
    /\ request[q].pc = "schedule"
    /\ request' = [request EXCEPT ![q].pc = "done",
                                  ![q].response = "success",
                                  ![q].cleanup_task = TRUE]
    /\ UNCHANGED tmp_on_disk
    /\ ServiceOthersUnchanged

\* The background task runs after the response was sent.
CleanupTempFiles(q) ==
    /\ request[q].cleanup_task
    /\ request[q].pc = "done"
    /\ tmp_on_disk' = UnlinkTempFiles(q)
    /\ request' = [request EXCEPT ![q].cleanup_task = FALSE]
    /\ ServiceOthersUnchanged

\* except Exception of process_fuel_map.
ExceptCleanup(q) ==
    /\ request[q].pc = "except"
    /\ tmp_on_disk' = UnlinkTempFiles(q)
    /\ Responds(q, "error")
    /\ ServiceOthersUnchanged

\* finally of validate_file and detect_classification; the response is the
\* one the try block or the except clause chose.
FinallyCleanup(q) ==
    /\ request[q].pc = "finally"
    /\ tmp_on_disk' = UnlinkTempFiles(q)
    /\ request' = [request EXCEPT
                      ![q].pc = "done",
                      ![q].response = IF @ = "none" THEN "error" ELSE @]
    /\ ServiceOthersUnchanged

RequestStep(q) ==
        \/ ProcessAccept(q)
        \/ StoreUpload(q)
        \/ ValidateGeotiff(q)
        \/ DetectAndMap(q)
        \/ SaveOriginal(q)
        \/ ProcessDataset(q)
        \/ ScheduleCleanup(q)
        \/ CleanupTempFiles(q)
        \/ ExceptCleanup(q)
        \/ FinallyCleanup(q)

NextService == \E q \in Requests : RequestStep(q)

-----------------------------------------------------------------------------
(* The reconciliation runs: process_reconciliation (class_reconciliation.py) *)
(* and process_with_alignment (class_reconciliation_enhanced.py), step by    *)
(* step on a file system.  A step that raises is a choice of the             *)
(* environment (an unreadable file, a failing write); a failing write leaves *)
(* either nothing or a partly written file at its destination.               *)

Runs == {"r1", "r2"}
Dirs == {"d1", "d2"}

\* temp_dir / "esri_pfa_reprojected.tif", "fbfm40_mapped.tif";
\* temp_dir / "aligned_reprojected.tif"
PlainReprojected == "esri_pfa_reprojected.tif"
PlainMapped == "fbfm40_mapped.tif"
AlignedReprojected == "aligned_reprojected.tif"
\* A raster that lies in the temp directory when the run starts
\* (temp_dir.mkdir(exist_ok=True) accepts a directory that is in use).
FoundInTemp == "other.tif"
TempNames == {PlainReprojected, PlainMapped, AlignedReprojected, FoundInTemp}

InputPath(r) == <<"in", "input", r>>
OutputPathIn(d, r) == <<d, "output", r>>
\* Path(output_fbfm40_path).parent / "temp" / name
TempPath(d, name) == <<d, "temp", name>>

Paths ==
    {InputPath(r) : r \in Runs}
        \cup {OutputPathIn(d, r) : d \in Dirs, r \in Runs}
        \cup {TempPath(d, n) : d \in Dirs, n \in TempNames}

IsTempPath(path) == path[2] = "temp"

\* PARAMETER["latitude_of_center",37.5] of the fallback definition in
\* reproject_and_resample, and PARAMETER["latitude_of_center",23] of wkt_5070
\* in set_default_landfire_grid, in tenths of a degree.
FallbackLatitudeOfCenter == 375
Wkt5070LatitudeOfCenter == 230

\* A coordinate reference system as rasterio holds it: the projection it
\* defines, and whether str(crs) renders it as an authority code ("EPSG:n")
\* or as the spelled-out WKT text.
AlbersConus(latitude_of_center) ==
    [projection |-> "Albers_Conic_Equal_Area",
     latitude_of_center |-> latitude_of_center]
WebMercator == [projection |-> "Mercator", latitude_of_center |-> 0]
Tag(definition, text) == [definition |-> definition, text |-> text]
NoCrs == Tag([projection |-> "none", latitude_of_center |-> 0], "none")

\* target_crs='EPSG:5070' as it resolves: NAD83 / Conus Albers, the
\* projection wkt_5070 spells out.
Epsg5070 == Tag(AlbersConus(Wkt5070LatitudeOfCenter), "authority")
\* target_crs_wkt = 'PROJCS["NAD83 / Conus Albers", ...]' of the plain and the
\* v1 engine
FallbackWkt == Tag(AlbersConus(FallbackLatitudeOfCenter), "wkt")
\* self.reference_crs = CRS.from_wkt(wkt_5070); the reference rasters of the
\* model are LANDFIRE rasters in the same projection.
ReferenceCrs == Tag(AlbersConus(Wkt5070LatitudeOfCenter), "wkt")
\* src_epsg="EPSG:3857": the CRS of the inputs
InputCrs == Tag(WebMercator, "authority")

\* str(crs), the text the CRS comparison of process_reconciliation uses
CrsStr(crs) == <<crs.text, crs.definition>>

Absent ==
    [exists |-> FALSE, source |-> "none", stage |-> "none",
     origin |-> <<0, 0>>, complete |-> FALSE, crs |-> NoCrs,
     resampling |-> "none", history |-> <<>>]

RawInput(r, origin) ==
    [exists |-> TRUE, source |-> r, stage |-> "raw", origin |-> origin,
     complete |-> TRUE, crs |-> InputCrs, resampling |-> "none",
     history |-> <<>>]

\* The content of a raster that was in the temp directory before the run.
FoundRaster ==
    [RawInput("none", <<0, 0>>) EXCEPT !.stage = "found"]

\* rasterio.open(path) succeeds
Readable(f) == f.exists /\ f.complete

\* The bounds of each run's input in the target CRS (transform_bounds).
InputBounds(r) ==
    IF r = "r1" THEN [minx |-> 4, miny |-> -11, maxx |-> 29, maxy |-> 17]
    ELSE [minx |-> -13, miny |-> 2, maxx |-> 8, maxy |-> 31]

InputOrigin(r) == <<InputBounds(r).minx, InputBounds(r).maxy>>

\* The reference rasters a run may name; "none": the path does not exist.
ReferenceOf(name) ==
    IF name = "refA"
    THEN [origin_x |-> 0, origin_y |-> 0, res |-> <<3, 3>>]
    ELSE [origin_x |-> -7, origin_y |-> 5, res |-> <<2, 2>>]

ReferenceNames == {"refA", "refB"}

\* output_res = 10.0 (maintain_resolution=True)
MaintainedResolution == 10

NotStarted ==
    [kind |-> "none", pc |-> "idle", out_dir |-> "d1", reference |-> "none",
     fill_nodata |-> FALSE, keep_original_projection |-> FALSE,
     raised |-> FALSE, outcome |-> "none", in_try |-> FALSE,
     cleanup_ran |-> FALSE, injected |-> FALSE,
     proj_ok |-> TRUE, fallback |-> "none", continued_crs |-> NoCrs,
     fix_attempts |-> 0, resampling_method |-> "mode", reported |-> Absent]

InitRunIdle ==
    /\ files = [path \in Paths |-> Absent]
    /\ temp_dirs = {}
    /\ run = [r \in Runs |-> NotStarted]
    /\ grid_owner = "none"
    /\ interference = {}

OutputPath(r) == OutputPathIn(run[r].out_dir, r)
TempOf(r, name) == TempPath(run[r].out_dir, name)

\* What a run did to something that belongs to another run.
TouchesOther(r, path, what) ==
    IF files[path].exists /\ files[path].source # r /\ IsTempPath(path)
    THEN {what} ELSE {}

\* The step of run r is over: it goes on to `next`, or into the finally
\* block with the exception pending.
Goes(r, next) == [run EXCEPT ![r].pc = next]
Raises(r, by_environment) ==
    [run EXCEPT ![r].pc = "cleanup", ![r].raised = TRUE,
                ![r].injected = @ \/ by_environment]

\* A step that reads src and writes dst: rasterio.open(src) raises when the
\* file cannot be read, rasterio.open(dst, 'w') raises when the directory is
\* missing, and the write itself may fail before or after the file exists.
WriteStep(r, src, dst, content, next) ==
    IF ~Readable(files[src]) \/ (IsTempPath(dst) /\ dst[1] \notin temp_dirs)
    THEN /\ run' = Raises(r, FALSE)
         /\ interference' = interference \cup TouchesOther(r, src, "read")
         /\ UNCHANGED files
    ELSE /\ interference' = interference
                \cup TouchesOther(r, src, "read")
                \cup TouchesOther(r, dst, "overwrite")
         /\ \/ /\ files' = [files EXCEPT ![dst] = content]
               /\ run' = Goes(r, next)
            \/ /\ files' = [files EXCEPT ![dst] = [content EXCEPT !.complete = FALSE]]
               /\ run' = Raises(r, TRUE)
            \/ /\ UNCHANGED files
               /\ run' = Raises(r, TRUE)

\* The CRS a reprojection continues with after the except branch replaced
\* the one that could not be resolved.
FellBack(next_run, r, crs) ==
    [next_run EXCEPT ![r].fallback = "used", ![r].continued_crs = crs]
FallbackFailed(next_run, r) == [next_run EXCEPT ![r].fallback = "failed"]

\* A step that only reads a file.
ReadStep(r, src, next) ==
    /\ interference' = interference \cup TouchesOther(r, src, "read")
    /\ UNCHANGED files
    /\ IF ~Readable(files[src])
       THEN run' = Raises(r, FALSE)
       ELSE \/ run' = Goes(r, next)
            \/ run' = Raises(r, TRUE)

\* The statistics step: it reads the raster at src and summarises it.
ReportStep(r, src, next) ==
    /\ interference' = interference \cup TouchesOther(r, src, "read")
    /\ UNCHANGED files
    /\ IF ~Readable(files[src])
       THEN run' = Raises(r, FALSE)
       ELSE \/ run' = [Goes(r, next) EXCEPT ![r].reported = files[src]]
            \/ run' = Raises(r, TRUE)

\* history: the processing steps the content of a file went through, in
\* the order they were applied.
Derived(src, r_stage, origin) ==
    [exists |-> TRUE, source |-> src.source, stage |-> r_stage,
     origin |-> origin, complete |-> TRUE, crs |-> src.crs,
     resampling |-> src.resampling,
     history |-> Append(src.history, r_stage)]

\* reproject(..., resampling=resampling_method): the raster was resampled
\* with the strategy the call passed.
Resampled(content, resampling_method) ==
    [content EXCEPT !.resampling = resampling_method]

\* The tag a file carries after profile['crs'] = crs was written: the CRS
\* itself, or, when the installation cannot resolve authority codes, possibly
\* its spelled-out form, which str() renders differently.
Drifted(crs) == [crs EXCEPT !.text = "wkt"]
WrittenAs(r, crs) == IF run[r].proj_ok THEN {crs} ELSE {crs, Drifted(crs)}
Retagged(content, crs) == [content EXCEPT !.crs = crs]

OtherVarsUnchanged == UNCHANGED <<rasterVars, tableVars, detectVars, apc,
                                  align_input, aligned, configVars, serviceVars>>

\* process_reconciliation of class_reconciliation.py and of
\* class_reconciliation_v1.py take the same steps up to the report.
PlainFlow(r) == run[r].kind \in {"plain", "v1"}

\* process_reconciliation, before the try: temp_dir.mkdir(exist_ok=True)
PlainSetup(r) ==
    /\ PlainFlow(r) /\ run[r].pc = "start"
    /\ \/ /\ temp_dirs' = temp_dirs \cup {run[r].out_dir}
          /\ run' = [run EXCEPT ![r].pc = "check_crs", ![r].in_try = TRUE]
       \/ /\ UNCHANGED temp_dirs      \* mkdir raises: the run ends here
          /\ run' = [run EXCEPT ![r].pc = "exit", ![r].outcome = "raised",
                                ![r].raised = TRUE, ![r].injected = TRUE]
    /\ UNCHANGED <<files, grid_owner, interference, gridVars>>
    /\ OtherVarsUnchanged

\* original_crs = self.check_input_crs(input_esri_path)
PlainCheckInputCrs(r) ==
    /\ PlainFlow(r) /\ run[r].pc = "check_crs"
    /\ ReadStep(r, InputPath(r),
                IF run[r].keep_original_projection THEN "map" ELSE "reproject")
    /\ UNCHANGED <<temp_dirs, grid_owner, gridVars>>
    /\ OtherVarsUnchanged

\* self.reproject_and_resample(input_esri_path, temp_reprojected)
\* reproject_and_resample(input_path, output_path, target_crs='EPSG:5070',
\*     target_resolution=30, resampling_method=ResamplingEnum.mode).
\* The inner try resolves target_crs; its except branch continues with
\* target_crs = target_crs_wkt; an exception of the fallback reaches the outer
\* except, which logs and re-raises.  resampling_method goes to reproject()
\* as it was passed.  ok, failed and failed_by_environment are the caller's
\* position after the call returned or raised.
ReprojectAndResample(r, dst, resampling_method, ok, failed, failed_by_environment) ==
    LET src == InputPath(r)
        target_crs == IF run[r].proj_ok THEN Epsg5070 ELSE FallbackWkt
        written == Resampled(Retagged(Derived(files[src], "reprojected",
                                              files[src].origin), target_crs),
                             resampling_method)
        after(next_run) == IF run[r].proj_ok THEN next_run
                           ELSE FellBack(next_run, r, target_crs)
    IN IF ~Readable(files[src]) \/ (IsTempPath(dst) /\ dst[1] \notin temp_dirs)
       THEN /\ run' = failed
            /\ interference' = interference \cup TouchesOther(r, src, "read")
            /\ UNCHANGED files
       ELSE /\ interference' = interference
                   \cup TouchesOther(r, src, "read")
                   \cup TouchesOther(r, dst, "overwrite")
            /\ \/ /\ files' = [files EXCEPT ![dst] = written]
                  /\ run' = after(ok)
               \/ /\ files' = [files EXCEPT ![dst] =
                                   [written EXCEPT !.complete = FALSE]]
                  /\ run' = after(failed_by_environment)
               \/ /\ UNCHANGED files
                  /\ run' = after(failed_by_environment)
               \/ /\ ~run[r].proj_ok      \* the fallback fails too
                  /\ UNCHANGED files
                  /\ run' = FallbackFailed(failed, r)

\* self.reproject_and_resample(input_esri_path, temp_reprojected)
PlainReproject(r) ==
    /\ PlainFlow(r) /\ run[r].pc = "reproject"
    /\ ReprojectAndResample(r, TempOf(r, PlainReprojected), "mode",
                            Goes(r, "map"), Raises(r, FALSE), Raises(r, TRUE))
    /\ UNCHANGED <<temp_dirs, grid_owner, gridVars>>
    /\ OtherVarsUnchanged

\* A caller's own call of reproject_and_resample(input, output,
\* resampling_method=m): it returns, or its exception reaches the caller.
Returned(r) == [run EXCEPT ![r].pc = "exit", ![r].outcome = "returned"]
Raised(r, by_environment) ==
    [run EXCEPT ![r].pc = "exit", ![r].outcome = "raised", ![r].raised = TRUE,
                ![r].injected = by_environment]

CallReprojectAndResample(r) ==
    /\ run[r].kind = "reproject" /\ run[r].pc = "start"
    /\ ReprojectAndResample(r, OutputPath(r), run[r].resampling_method,
                            Returned(r), Raised(r, FALSE), Raised(r, TRUE))
    /\ UNCHANGED <<temp_dirs, grid_owner, gridVars>>
    /\ OtherVarsUnchanged

\* self.apply_class_mapping(input or temp_reprojected, temp_mapped)
PlainApplyMapping(r) ==
    /\ PlainFlow(r) /\ run[r].pc = "map"
    /\ LET src == IF run[r].keep_original_projection THEN InputPath(r)
                  ELSE TempOf(r, PlainReprojected)
       IN \E crs \in WrittenAs(r, files[src].crs) :
             WriteStep(r, src, TempOf(r, PlainMapped),
                       Retagged(Derived(files[src], "mapped", files[src].origin),
                                crs),
                       "fill")
    /\ UNCHANGED <<temp_dirs, grid_owner, gridVars>>
    /\ OtherVarsUnchanged

\* fill_nodata_majority(temp_mapped, output) or shutil.copy2(temp_mapped, output)
PlainFillOrCopy(r) ==
    /\ PlainFlow(r) /\ run[r].pc = "fill"
    /\ LET src == TempOf(r, PlainMapped)
       IN \E crs \in IF run[r].fill_nodata THEN WrittenAs(r, files[src].crs)
                      ELSE {files[src].crs} :
             WriteStep(r, src, OutputPath(r),
                       IF run[r].fill_nodata
                       THEN Retagged(Derived(files[src], "filled",
                                             files[src].origin), crs)
                       ELSE files[src],
                       "verify")
    /\ UNCHANGED <<temp_dirs, grid_owner, gridVars>>
    /\ OtherVarsUnchanged

\* fix_crs(raster_path, target_crs): data = src.read(); profile =
\* src.profile.copy(); profile['crs'] = target_crs; the raster is written to
\* raster_path + '.tmp' and moved over raster_path.
FixCrs(content, crs) == Retagged(content, crs)

\* Step 4: with keep_original_projection the output is opened again and
\* str(final_check.crs) compared with str(original_crs); when they differ
\* fix_crs rewrites the output once and the run goes on to the report.
PlainVerifyCrs(r) ==
    /\ PlainFlow(r) /\ run[r].pc = "verify"
    /\ LET out == OutputPath(r)
           original_crs == files[InputPath(r)].crs
       IN IF ~run[r].keep_original_projection
          THEN /\ run' = Goes(r, "report")
               /\ UNCHANGED <<files, interference>>
          ELSE IF ~Readable(files[out])
                  \/ CrsStr(files[out].crs) = CrsStr(original_crs)
          THEN ReadStep(r, out, "report")
          ELSE /\ interference' = interference
                      \cup TouchesOther(r, out, "read")
                      \cup TouchesOther(r, out, "overwrite")
               /\ \/ \E crs \in WrittenAs(r, original_crs) :
                        /\ files' = [files EXCEPT
                                        ![out] = FixCrs(files[out], crs)]
                        /\ run' = [Goes(r, "report") EXCEPT
                                      ![r].fix_attempts = @ + 1]
                  \/ /\ UNCHANGED files     \* fix_crs raises
                     /\ run' = [Raises(r, TRUE) EXCEPT
                                   ![r].fix_attempts = @ + 1]
    /\ UNCHANGED <<temp_dirs, grid_owner, gridVars>>
    /\ OtherVarsUnchanged

\* self.generate_statistics_report(output_fbfm40_path); then the try block ends
PlainReport(r) ==
    /\ PlainFlow(r) /\ run[r].pc = "report"
    /\ ReportStep(r, OutputPath(r),
                IF run[r].kind = "v1" THEN "save" ELSE "cleanup")
    /\ UNCHANGED <<temp_dirs, grid_owner, gridVars>>
    /\ OtherVarsUnchanged

\* v1 only: self.save_mapping_config(config_path) and
\* self.generate_mapping_documentation(doc_path) next to the output
V1SaveArtifacts(r) ==
    /\ run[r].kind = "v1" /\ run[r].pc = "save"
    /\ \/ run' = Goes(r, "cleanup")
       \/ run' = Raises(r, TRUE)
    /\ UNCHANGED <<files, temp_dirs, grid_owner, interference, gridVars>>
    /\ OtherVarsUnchanged

\* A cleanup whose pattern matches the reprojected raster only.
ReprojectedIn(d) ==
    {path \in Paths : /\ path[1] = d /\ IsTempPath(path) /\ files[path].exists
                      /\ path[3] \in {PlainReprojected, AlignedReprojected}}

\* temp_dir.glob("*.tif"): the rasters in the temp directory
TifsIn(d) == {path \in Paths : path[1] = d /\ IsTempPath(path) /\ files[path].exists}

\* finally: for temp_file in temp_dir.glob("*.tif"): temp_file.unlink()
PlainCleanup(r) ==
    /\ PlainFlow(r) /\ run[r].pc = "cleanup"
    /\ LET doomed == TifsIn(run[r].out_dir)
       IN /\ files' = [path \in Paths |->
                          IF path \in doomed THEN Absent ELSE files[path]]
          /\ interference' = interference \cup
                 UNION {TouchesOther(r, path, "delete") : path \in doomed}
    /\ run' = [run EXCEPT ![r].pc = "rmdir", ![r].cleanup_ran = TRUE]
    /\ UNCHANGED <<temp_dirs, grid_owner, gridVars>>
    /\ OtherVarsUnchanged

Exits(r, raised_now) ==
    [run EXCEPT ![r].pc = "exit",
                ![r].raised = @ \/ raised_now,
                ![r].outcome = IF run[r].raised \/ raised_now
                               THEN "raised" ELSE "returned"]

\* finally, plain: if temp_dir.exists(): temp_dir.rmdir()  -- OSError when
\* the directory is not empty;
\* v1: if temp_dir.exists() and not any(temp_dir.iterdir()): temp_dir.rmdir()
PlainRmdir(r) ==
    /\ PlainFlow(r) /\ run[r].pc = "rmdir"
    /\ LET d == run[r].out_dir
       IN IF d \notin temp_dirs
          THEN /\ run' = Exits(r, FALSE)
               /\ UNCHANGED temp_dirs
          ELSE IF TifsIn(d) # {}
          THEN /\ run' = Exits(r, run[r].kind = "plain")
               /\ UNCHANGED temp_dirs
          ELSE /\ run' = Exits(r, FALSE)
               /\ temp_dirs' = temp_dirs \ {d}
    /\ UNCHANGED <<files, grid_owner, interference, gridVars>>
    /\ OtherVarsUnchanged

\* process_with_alignment, before the try: load_reference_grid when the
\* reference path exists, then temp_dir.mkdir(exist_ok=True).  Either may
\* raise, and the run ends before it reaches the try block.
EndsInSetup(r) ==
    [run EXCEPT ![r].pc = "exit", ![r].outcome = "raised",
                ![r].raised = TRUE, ![r].injected = TRUE]

\* The lattice a run aligns to when nothing else runs: that of its reference
\* raster, or the default lattice set at construction when it names none.
GridOf(r) ==
    IF run[r].reference = "none" THEN DefaultGrid
    ELSE ReferenceOf(run[r].reference)

\* load_reference_grid replaces the lattice another run loaded and has not
\* finished with by a different one.
OverwritesGrid(r) ==
    IF /\ grid_owner \notin {"none", r}
       /\ run[grid_owner].pc # "exit"
       /\ ReferenceOf(run[r].reference) #
              [origin_x |-> grid_origin_x, origin_y |-> grid_origin_y,
               res |-> reference_res]
    THEN {"overwrite_grid"} ELSE {}

AlignedSetup(r) ==
    /\ run[r].kind = "aligned" /\ run[r].pc = "start"
    /\ \/ /\ run[r].reference # "none"      \* rasterio.open(reference) raises
          /\ run' = EndsInSetup(r)
          /\ UNCHANGED <<temp_dirs, grid_owner, interference, gridVars>>
       \/ \E mkdir_ok \in BOOLEAN :
          /\ IF run[r].reference # "none"
             THEN LET ref == ReferenceOf(run[r].reference)
                  IN /\ grid_origin_x' = ref.origin_x
                     /\ grid_origin_y' = ref.origin_y
                     /\ reference_res' = ref.res
                     /\ grid_owner' = r
                     /\ interference' = interference \cup OverwritesGrid(r)
             ELSE UNCHANGED <<grid_owner, interference, gridVars>>
          /\ IF mkdir_ok
             THEN /\ temp_dirs' = temp_dirs \cup {run[r].out_dir}
                  /\ run' = [run EXCEPT ![r].pc = "reproject", ![r].in_try = TRUE]
             ELSE /\ UNCHANGED temp_dirs
                  /\ run' = EndsInSetup(r)
    /\ UNCHANGED files
    /\ OtherVarsUnchanged

\* align_bounds_to_grid reads a lattice that another run loaded and that is
\* not the lattice of this run's own reference.
ReadsGridOfOther(r) ==
    IF /\ grid_owner \notin {"none", r}
       /\ GridOf(r) #
              [origin_x |-> grid_origin_x, origin_y |-> grid_origin_y,
               res |-> reference_res]
    THEN {"read_grid"} ELSE {}

\* self.reproject_with_alignment(input_esri_path, temp_reprojected,
\*                               maintain_resolution): the destination grid is
\* align_bounds_to_grid of the input's bounds on the engine's current lattice.
AlignedReproject(r) ==
    /\ run[r].kind = "aligned" /\ run[r].pc = "reproject"
    /\ LET src == InputPath(r)
           dst == TempOf(r, AlignedReprojected)
           t == AlignBoundsToGrid(InputBounds(r), MaintainedResolution,
                                  grid_origin_x, grid_origin_y,
                                  reference_res).transform
           \* resampling=Resampling.nearest
           written == Resampled(Retagged(Derived(files[src], "reprojected",
                                                 <<t.c, t.f>>), ReferenceCrs),
                                "nearest")
           \* except: the call is repeated with self.reference_crs itself
           after(next_run) == IF run[r].proj_ok THEN next_run
                              ELSE FellBack(next_run, r, ReferenceCrs)
       IN IF ~Readable(files[src]) \/ run[r].out_dir \notin temp_dirs
          THEN /\ run' = Raises(r, FALSE)
               /\ UNCHANGED <<files, interference>>
          ELSE /\ interference' = interference
                      \cup ReadsGridOfOther(r)
                      \cup TouchesOther(r, dst, "overwrite")
               /\ \/ /\ files' = [files EXCEPT ![dst] = written]
                     /\ run' = after(Goes(r, "map"))
                  \/ /\ files' = [files EXCEPT ![dst] =
                                      [written EXCEPT !.complete = FALSE]]
                     /\ run' = after(Raises(r, TRUE))
                  \/ /\ UNCHANGED files
                     /\ run' = after(Raises(r, TRUE))
                  \/ /\ ~run[r].proj_ok      \* the fallback fails too
                     /\ UNCHANGED files
                     /\ run' = FallbackFailed(Raises(r, FALSE), r)
    /\ UNCHANGED <<temp_dirs, grid_owner, gridVars>>
    /\ OtherVarsUnchanged

\* self.apply_class_mapping(temp_reprojected, output_fbfm40_path)
AlignedApplyMapping(r) ==
    /\ run[r].kind = "aligned" /\ run[r].pc = "map"
    /\ LET src == TempOf(r, AlignedReprojected)
       IN WriteStep(r, src, OutputPath(r),
                    Derived(files[src], "mapped", files[src].origin), "verify")
    /\ UNCHANGED <<temp_dirs, grid_owner, gridVars>>
    /\ OtherVarsUnchanged

\* self.verify_alignment(output, reference) when the reference exists
AlignedVerify(r) ==
    /\ run[r].kind = "aligned" /\ run[r].pc = "verify"
    /\ IF run[r].reference # "none"
       THEN ReadStep(r, OutputPath(r), "report")
       ELSE /\ run' = Goes(r, "report")
            /\ UNCHANGED <<files, interference>>
    /\ UNCHANGED <<temp_dirs, grid_owner, gridVars>>
    /\ OtherVarsUnchanged

\* self.generate_statistics(output_fbfm40_path); then the try block ends
AlignedReport(r) ==
    /\ run[r].kind = "aligned" /\ run[r].pc = "report"
    /\ ReportStep(r, OutputPath(r), "cleanup")
    /\ UNCHANGED <<temp_dirs, grid_owner, gridVars>>
    /\ OtherVarsUnchanged

\* finally: if temp_reprojected.exists(): temp_reprojected.unlink()
AlignedCleanup(r) ==
    /\ run[r].kind = "aligned" /\ run[r].pc = "cleanup"
    /\ LET path == TempOf(r, AlignedReprojected)
       IN /\ files' = [files EXCEPT ![path] = Absent]
          /\ interference' = interference \cup TouchesOther(r, path, "delete")
    /\ run' = [run EXCEPT ![r].pc = "rmdir", ![r].cleanup_ran = TRUE]
    /\ UNCHANGED <<temp_dirs, grid_owner, gridVars>>
    /\ OtherVarsUnchanged

\* finally: if temp_dir.exists() and not any(temp_dir.iterdir()): temp_dir.rmdir()
AlignedRmdir(r) ==
    /\ run[r].kind = "aligned" /\ run[r].pc = "rmdir"
    /\ LET d == run[r].out_dir
       IN temp_dirs' = IF TifsIn(d) = {} THEN temp_dirs \ {d} ELSE temp_dirs
    /\ run' = Exits(r, FALSE)
    /\ UNCHANGED <<files, grid_owner, interference, gridVars>>
    /\ OtherVarsUnchanged

Step(r) ==
    \/ PlainSetup(r) \/ PlainCheckInputCrs(r) \/ PlainReproject(r)
    \/ PlainApplyMapping(r) \/ PlainFillOrCopy(r) \/ PlainVerifyCrs(r)
    \/ PlainReport(r) \/ V1SaveArtifacts(r) \/ PlainCleanup(r) \/ PlainRmdir(r)
    \/ AlignedSetup(r) \/ AlignedReproject(r) \/ AlignedApplyMapping(r)
    \/ AlignedVerify(r) \/ AlignedReport(r) \/ AlignedCleanup(r)
    \/ AlignedRmdir(r) \/ CallReprojectAndResample(r)

\* Members of rasterio.enums.Resampling a caller can pass: the two strategies
\* for categorical data and one that averages.
ResamplingMethods == {"mode", "nearest", "average"}

\* The calls a caller can make: the plain and the v1 engine with their options
\* fill_nodata and keep_original_projection, the aligned engine with or without an existing reference raster.
Calls(d) ==
    {[NotStarted EXCEPT !.kind = kind, !.pc = "start", !.out_dir = d,
                        !.fill_nodata = f, !.keep_original_projection = k]
        : kind \in {"plain", "v1"}, f \in BOOLEAN, k \in BOOLEAN}
    \cup
    {[NotStarted EXCEPT !.kind = "aligned", !.pc = "start", !.out_dir = d,
                        !.reference = ref]
        : ref \in ReferenceNames \cup {"none"}}
    \cup
    {[NotStarted EXCEPT !.kind = "reproject", !.pc = "start", !.out_dir = d,
                        !.resampling_method = m]
        : m \in ResamplingMethods}

InputFiles(r) == {Absent, RawInput(r, InputOrigin(r))}

NextRun == Step("r1")

NextConcurrent == \E r \in Runs : Step(r)

-----------------------------------------------------------------------------
(* Remapping and gap filling as a state machine: a raster is read, one of   *)
(* the apply-mapping implementations writes the fuel (and confidence)       *)
(* raster, and fill_nodata_majority fills the result.                       *)

Shapes ==
    {s \in (1..MaxPixels) \X (1..MaxPixels) : s[1] * s[2] <= MaxPixels}

\* Source codes of the generated rasters: a mapped code, the cloud code and
\* the sentinel (which has no rule).
Palette == {1, CloudClass, NoData}

GeneratedRasters ==
    UNION {[1..s[1] -> [1..s[2] -> Palette]] : s \in Shapes}

\* One raster per source code, with and without a rule, in every shape.
UniformCodes == (DOMAIN DefaultMapping) \cup {3, 6}

UniformRasters == {Full(s[1], s[2], c) : s \in Shapes, c \in UniformCodes}

ScenarioRaster == <<<<1, 1, 2>>, <<2, NoData, 2>>, <<7, 7, 7>>>>

InputRasters == GeneratedRasters \cup UniformRasters \cup {ScenarioRaster}

WindowSizes == {2 * k + 1 : k \in 0..MaxHalfWindow}

InitRaster ==
    /\ rpc = "input"
    /\ variant = "none"
    /\ clouds_as_nodata = FALSE
    /\ data \in InputRasters
    /\ fuel_output = <<>>
    /\ confidence_output = <<>>
    /\ unmapped_count = 0
    /\ window_size = 0
    /\ filled_data = <<>>

\* FuelModelReconciliation(): load_default_mapping, then the validation flags
InitTable ==
    /\ mapping_with_metadata = DefaultEngine.mapping_with_metadata
    /\ fbfm40_descriptions = DefaultEngine.fbfm40_descriptions
    /\ expected_source_classes = DefaultEngine.expected_source_classes
    /\ valid_fbfm40_classes = DefaultEngine.valid_fbfm40_classes
    /\ validation_passed = DefaultEngine.validation_passed
    /\ validation_results = DefaultEngine.validation_results

\* processor.clouds_as_nodata = True, before the mapping is applied
SetCloudsAsNodata ==
    /\ rpc = "input"
    /\ ~clouds_as_nodata
    /\ clouds_as_nodata' = TRUE
    /\ UNCHANGED <<rpc, variant, data, fuel_output, confidence_output,
                   unmapped_count, window_size, filled_data>>
    /\ UNCHANGED <<tableVars, alignVars, detectVars, runVars, configVars, serviceVars>>

Mapped(name, result) ==
    /\ rpc = "input"
    /\ rpc' = "mapped"
    /\ variant' = name
    /\ fuel_output' = result.fuel
    /\ confidence_output' = result.confidence
    /\ unmapped_count' = result.unmapped
    /\ UNCHANGED <<clouds_as_nodata, data, window_size, filled_data>>
    /\ UNCHANGED <<tableVars, alignVars, detectVars, runVars, configVars, serviceVars>>

RemapPlain ==
    Mapped("plain", ApplyClassMapping(mapping_with_metadata, clouds_as_nodata, data))

RemapWithConfidence ==
    \E confidence_requested \in BOOLEAN :
        Mapped("v1", ApplyClassMappingWithConfidence(
                         mapping_with_metadata, clouds_as_nodata, data,
                         confidence_requested))

RemapSimple ==
    Mapped("simple", SimpleApplyMapping(mapping_with_metadata, data))

RemapAligned ==
    Mapped("aligned", AlignedApplyClassMapping(mapping_with_metadata, data))

\* fill_nodata_majority(temp_mapped, output, window_size): the two engines
\* that have a gap-fill step.  The v1 engine, when it wrote a confidence
\* raster, passes it through the same function (fill_nodata_majority(
\* confidence_path, conf_temp)) and moves the result over the confidence
\* raster; the function tests the float32 pixels against -9999 as well.
FillNodata ==
    /\ rpc = "mapped"
    /\ variant \in {"plain", "v1"}
    /\ \E size \in WindowSizes :
        /\ window_size' = size
        /\ filled_data' = FillNodataMajority(fuel_output, size)
        /\ confidence_output' =
               IF variant = "v1" /\ confidence_output # <<>>
               THEN FillNodataMajority(confidence_output, size)
               ELSE confidence_output
    /\ rpc' = "filled"
    /\ UNCHANGED <<variant, clouds_as_nodata, data, fuel_output,
                   unmapped_count>>
    /\ UNCHANGED <<tableVars, alignVars, detectVars, runVars, configVars, serviceVars>>

NextRaster ==
    \/ SetCloudsAsNodata
    \/ RemapPlain
    \/ RemapWithConfidence
    \/ RemapSimple
    \/ RemapAligned
    \/ FillNodata

\* GDALProcessor._apply_class_mapping(input_path, output_path, mapping):
\* mapped_data = data.copy(); for source_code, target_code in mapping.items():
\* mapped_data[data == source_code] = target_code.  The masks are taken on
\* the input, and a code without a rule keeps its value.
GdalApplyClassMapping(mapping, src) ==
    [i \in 1..Height(src) |->
        [j \in 1..Width(src) |->
            IF src[i][j] \in DOMAIN mapping THEN mapping[src[i][j]]
            ELSE src[i][j]]]

RemapGdal ==
    Mapped("gdal",
           [fuel |-> GdalApplyClassMapping(ClassMapping(mapping_with_metadata), data),
            confidence |-> <<>>,
            unmapped |-> 0])

\* create_class_mapping for the canonical system: mappings = {cls: cls},
\* confidence_scores = {cls: 1.0}, here for every canonical code.
IdentityTable ==
    [cls \in Fbfm40Classes |->
        [target |-> cls, confidence |-> 100, rationale |-> "direct_mapping"]]

\* Configuration documents a user may write: the saved default document with
\* its list of rules replaced by a rule for code 1 of some confidence and the
\* default rule for the cloud code.  load_mapping_config takes 'confidence'
\* as it is written.
DocumentConfidences == {0, 50, 100, 150}

RemapDocuments ==
    {[SavedDocument(DefaultEngine) EXCEPT
        !.mappings =
            << [source_class |-> 1, target_class |-> 98,
                confidence |-> confidence, rationale |-> "edited"],
               [source_class |-> CloudClass,
                target_class |-> DefaultMapping[CloudClass].target,
                confidence |-> DefaultMapping[CloudClass].confidence,
                rationale |-> DefaultMapping[CloudClass].rationale] >>]
        : confidence \in DocumentConfidences}

\* The tables an engine remaps with: the built-in default, the identity
\* table, and the tables load_mapping_config makes of the documents.
RemapTables ==
    {DefaultMapping, IdentityTable}
        \cup {LoadMappingConfig(DefaultEngine, config).mapping_with_metadata :
                 config \in RemapDocuments}

\* Rasters of canonical codes (1, 10 and 98 are FBFM40 codes) and the
\* sentinel.
MaxRemapPixels == 4
RemapPalette == {1, CloudClass, 98, NoData}
RemapRasters ==
    UNION {[1..s[1] -> [1..s[2] -> RemapPalette]] :
              s \in {t \in Shapes : t[1] * t[2] <= MaxRemapPixels}}

InitRemap ==
    /\ rpc = "input"
    /\ variant = "none"
    /\ clouds_as_nodata = FALSE
    /\ data \in RemapRasters
    /\ fuel_output = <<>>
    /\ confidence_output = <<>>
    /\ unmapped_count = 0
    /\ window_size = 0
    /\ filled_data = <<>>
    /\ mapping_with_metadata \in RemapTables
    /\ fbfm40_descriptions = DefaultEngine.fbfm40_descriptions
    /\ expected_source_classes = DefaultEngine.expected_source_classes
    /\ valid_fbfm40_classes = DefaultEngine.valid_fbfm40_classes
    /\ validation_passed = DefaultEngine.validation_passed
    /\ validation_results = DefaultEngine.validation_results

NextRemap == NextRaster \/ RemapGdal

InitRemapSpec ==
    InitRemap /\ InitAlignIdle /\ InitDetectIdle /\ InitRunIdle /\ InitConfigIdle
    /\ InitServiceIdle

SpecRemap == InitRemapSpec /\ [][NextRemap]_vars

InitRasterSpec ==
    InitRaster /\ InitTable /\ InitAlignIdle /\ InitDetectIdle /\ InitRunIdle /\ InitConfigIdle
    /\ InitServiceIdle

SpecRaster == InitRasterSpec /\ [][NextRaster]_vars


-----------------------------------------------------------------------------
(* Claims about remapping and gap filling *)

ScenarioMapped == <<<<98, 98, 183>>, <<183, NoData, 183>>, <<91, 91, 91>>>>

ScenarioRemapped == data = ScenarioRaster /\ rpc # "input"

ScenarioFilled == data = ScenarioRaster /\ rpc = "filled" /\ window_size = 3

\* C1 (as stated): remapping the scenario raster with the default table yields
\* [[98,98,183],[183,-9999,183],[91,91,91]] and the 3x3 majority gap fill sets
\* the centre pixel to 183.
C1_CentreBecomes183 ==
    /\ ScenarioRemapped => fuel_output = ScenarioMapped
    /\ ScenarioFilled => filled_data[2][2] = 183

\* C1 (amended): remapping the scenario raster with the default table yields
\* [[98,98,183],[183,-9999,183],[91,91,91]]; the eight neighbours of the centre
\* hold three 183s, three 91s and two 98s, and the 3x3 majority gap fill sets
\* the centre pixel to 91, the smaller of the two tied values, leaving every
\* other pixel as it was.
C1_CentreBecomes91 ==
    /\ ScenarioRemapped => fuel_output = ScenarioMapped
    /\ ScenarioFilled =>
           filled_data = <<<<98, 98, 183>>, <<183, 91, 183>>, <<91, 91, 91>>>>

C1_Witness == ScenarioFilled /\ variant = "plain"

\* C2: for every input raster and every odd window size, fill_nodata_majority
\* leaves every pixel whose input value is not the sentinel -9999 with exactly
\* its input value (and keeps the raster's shape); only sentinel pixels change.
C2_FillKeepsValidPixels ==
    rpc = "filled" =>
        /\ Height(filled_data) = Height(fuel_output)
        /\ Width(filled_data) = Width(fuel_output)
        /\ \A p \in Pixels(fuel_output) :
               fuel_output[p[1]][p[2]] # NoData =>
                   filled_data[p[1]][p[2]] = fuel_output[p[1]][p[2]]

\* A fill that changed a sentinel pixel while the window majority around some
\* valid pixel differs from that pixel's own value.
C2_Witness ==
    /\ rpc = "filled"
    /\ filled_data # fuel_output
    /\ \E p \in Pixels(fuel_output) :
           /\ fuel_output[p[1]][p[2]] # NoData
           /\ MajorityFilter(fuel_output, p[1], p[2], window_size)
                  # fuel_output[p[1]][p[2]]

IsUniform(r, c) == \A p \in Pixels(r) : r[p[1]][p[2]] = c

UniformInputCode == data[1][1]

UniformMappedInput ==
    /\ rpc # "input"
    /\ IsUniform(data, UniformInputCode)
    /\ UniformInputCode \in DOMAIN mapping_with_metadata

\* C5 (as stated): for every source code with a rule, remapping a raster that
\* holds only that code yields the rule's target in every pixel and, when a
\* confidence raster is written, exactly the rule's configured confidence in
\* every pixel of it.
C5_UniformGivesTargetAndExactConfidence ==
    UniformMappedInput =>
        LET rule == mapping_with_metadata[UniformInputCode]
        IN /\ IsUniform(fuel_output, rule.target)
           /\ confidence_output # <<>> =>
                  /\ IsUniform(confidence_output, ToFloat32(rule.confidence))
                  /\ IsExactFloat32(rule.confidence)

\* The engines with a clouds_as_nodata flag redirect the cloud code.
Redirected(code) ==
    code = CloudClass /\ clouds_as_nodata /\ variant \in {"plain", "v1"}

\* C5 (amended): for every source code with a rule, remapping a raster that
\* holds only that code yields the rule's target in every pixel and, when a
\* confidence raster is written, the float32 nearest to the rule's configured
\* confidence in every pixel of it; except that code 10 under a set
\* clouds_as_nodata flag yields -9999 (confidence 0.0) in every pixel.
C5_UniformGivesTargetAndStoredConfidence ==
    UniformMappedInput =>
        LET rule == mapping_with_metadata[UniformInputCode]
            redirected == Redirected(UniformInputCode)
        IN /\ IsUniform(fuel_output, IF redirected THEN NoData ELSE rule.target)
           /\ confidence_output # <<>> =>
                  IsUniform(confidence_output,
                            IF redirected THEN 0 ELSE ToFloat32(rule.confidence))

C5_Witness ==
    /\ UniformMappedInput
    /\ UniformInputCode = 11
    /\ Height(data) * Width(data) > 1
    /\ variant = "v1"
    /\ confidence_output # <<>>


-----------------------------------------------------------------------------
(* The grid-alignment specification *)

InitRasterIdle ==
    /\ rpc = "input"
    /\ variant = "none"
    /\ clouds_as_nodata = FALSE
    /\ data = <<>>
    /\ fuel_output = <<>>
    /\ confidence_output = <<>>
    /\ unmapped_count = 0
    /\ window_size = 0
    /\ filled_data = <<>>

InitAlignSpec ==
    InitAlignIdle /\ InitRasterIdle /\ InitTable /\ InitDetectIdle /\ InitRunIdle /\ InitConfigIdle
    /\ InitServiceIdle

SpecAlign == InitAlignSpec /\ [][NextAlign]_vars

\* C3: for every bounding box and every reference lattice (origin, positive
\* cell size), the raster origin align_bounds_to_grid returns (aligned min X,
\* aligned max Y) differs from the reference origin by an integer multiple of
\* the reference cell size in both axes, whatever the working resolution is.
C3_OriginOnReferenceLattice ==
    apc = "aligned" =>
        /\ (aligned.transform.c - grid_origin_x) % reference_res[1] = 0
        /\ (aligned.transform.f - grid_origin_y) % reference_res[1] = 0
        /\ aligned.transform.c = aligned.bounds.minx
        /\ aligned.transform.f = aligned.bounds.maxy

\* A box whose corners are off the lattice, aligned at a working resolution
\* that does not divide the reference cell size, on a lattice whose origin
\* is itself no multiple of the cell size.
C3_Witness ==
    /\ apc = "aligned"
    /\ aligned.bounds.minx # align_input.bounds.minx
    /\ aligned.bounds.maxy # align_input.bounds.maxy
    /\ reference_res[1] % align_input.input_res # 0
    /\ grid_origin_x % reference_res[1] # 0
    /\ grid_origin_y % reference_res[1] # 0

\* C4: for every input bounding box, the aligned bounding box returned by
\* align_bounds_to_grid contains it: aligned minX <= minX, aligned minY <= minY,
\* aligned maxX >= maxX and aligned maxY >= maxY.
C4_AlignedBoxContainsInput ==
    apc = "aligned" =>
        /\ aligned.bounds.minx <= align_input.bounds.minx
        /\ aligned.bounds.miny <= align_input.bounds.miny
        /\ aligned.bounds.maxx >= align_input.bounds.maxx
        /\ aligned.bounds.maxy >= align_input.bounds.maxy

\* An alignment that moved all four edges outward.
C4_Witness ==
    /\ apc = "aligned"
    /\ aligned.bounds.minx < align_input.bounds.minx
    /\ aligned.bounds.miny < align_input.bounds.miny
    /\ aligned.bounds.maxx > align_input.bounds.maxx
    /\ aligned.bounds.maxy > align_input.bounds.maxy


-----------------------------------------------------------------------------
(* The detection specification *)

InitDetectSpec ==
    InitDetectIdle /\ InitRasterIdle /\ InitTable /\ InitAlignIdle /\ InitRunIdle /\ InitConfigIdle
    /\ InitServiceIdle

SpecDetect == InitDetectSpec /\ [][NextDetect]_vars

\* C6: given the code set {1,2,4,5,7,8,9,10,11} (the full code set of the
\* default source scheme), detect_classification_system returns the tag of
\* that source scheme: a tag that is neither UNKNOWN nor the tag of the
\* canonical target scheme FBFM40.
C6_DetectsDefaultSourceScheme ==
    (dpc = "detected" /\ Range(detected_classes) = Range(ExpectedSourceClasses)) =>
        /\ detected_system \in ClassificationSystem
        /\ detected_system # "UNKNOWN"
        /\ detected_system # "FBFM40"


-----------------------------------------------------------------------------
(* One reconciliation run, and two runs side by side.                        *)

\* Whether the installation resolves authority codes such as 'EPSG:5070'.
Installations == BOOLEAN

InitOneRun ==
    /\ \E call \in Calls("d1"), input \in InputFiles("r1"),
          proj_ok \in Installations, found \in {Absent, FoundRaster} :
        /\ run = [r \in Runs |->
                     IF r = "r1" THEN [call EXCEPT !.proj_ok = proj_ok]
                     ELSE NotStarted]
        /\ files = [path \in Paths |->
                       IF path = InputPath("r1") THEN input
                       ELSE IF path = TempPath("d1", FoundInTemp) THEN found
                       ELSE Absent]
        /\ temp_dirs \in IF found.exists THEN {{"d1"}} ELSE {{}, {"d1"}}
    /\ grid_owner = "none"
    /\ interference = {}

InitRunSpec ==
    InitOneRun /\ InitRasterIdle /\ InitTable /\ InitAlignIdle /\ InitDetectIdle /\ InitConfigIdle
    /\ InitServiceIdle

SpecRun == InitRunSpec /\ [][NextRun]_vars

\* The intermediate files of a run: temp_reprojected and temp_mapped.
IntermediatesOf(r) ==
    IF run[r].kind = "aligned" THEN {TempOf(r, AlignedReprojected)}
    ELSE {TempOf(r, PlainReprojected), TempOf(r, PlainMapped)}

NoIntermediateLeft(r) == \A path \in IntermediatesOf(r) : ~files[path].exists

HasExited(r) == run[r].pc = "exit"

C8_NoOutputAfterFailure ==
    \A r \in Runs :
        HasExited(r) /\ run[r].outcome = "raised" => ~files[OutputPath(r)].exists

\* Two runs on different inputs and different output paths; the outputs may
\* lie in one directory, and the aligned runs use one engine object.
InitTwoRuns ==
    /\ \E d1 \in Dirs, d2 \in Dirs :
         \E c1 \in Calls(d1), c2 \in Calls(d2) :
            run = [r \in Runs |-> IF r = "r1" THEN c1 ELSE c2]
    /\ files = [path \in Paths |->
                   IF path[2] = "input"
                   THEN RawInput(path[3], InputOrigin(path[3])) ELSE Absent]
    /\ temp_dirs = {}
    /\ grid_owner = "none"
    /\ interference = {}

InitConcurrentSpec ==
    InitTwoRuns /\ InitRasterIdle /\ InitTable /\ InitAlignIdle /\ InitDetectIdle /\ InitConfigIdle
    /\ InitServiceIdle

SpecConcurrent == InitConcurrentSpec /\ [][NextConcurrent]_vars

\* What a run writes to its output path when nothing else runs: the raster
\* derived from its own input, on the lattice of its own reference raster.
OutputAlone(r) ==
    IF run[r].kind = "aligned"
    THEN LET g == GridOf(r)
             t == AlignBoundsToGrid(InputBounds(r), MaintainedResolution,
                                    g.origin_x, g.origin_y, g.res).transform
         IN [exists |-> TRUE, source |-> r, stage |-> "mapped",
             origin |-> <<t.c, t.f>>, complete |-> TRUE]
    ELSE [exists |-> TRUE, source |-> r,
          stage |-> IF run[r].fill_nodata THEN "filled" ELSE "mapped",
          origin |-> InputOrigin(r), complete |-> TRUE]

-----------------------------------------------------------------------------
(* Saving a mapping table and loading it again.                              *)

Retargets == {91, 98, 250}
EditedCodes == {1, 2, 7, 10, 11}

\* The tables an engine may hold: the default one, one with a rule pointing
\* at another target, one with a rule missing.
ConfigTables ==
    {DefaultMapping}
        \cup {[DefaultMapping EXCEPT ![code].target = target] :
                 code \in EditedCodes, target \in Retargets}
        \cup {[k \in DOMAIN DefaultMapping \ {code} |-> DefaultMapping[k]] :
                 code \in EditedCodes}

InitConfig ==
    /\ mapping_with_metadata \in ConfigTables
    /\ fbfm40_descriptions = DefaultDescriptions
    /\ expected_source_classes \in {ExpectedSourceClasses, <<1, 2>>}
    /\ valid_fbfm40_classes = ValidFbfm40Classes
    /\ validation_passed = FALSE
    /\ validation_results = NoResults
    /\ InitConfigIdle

CurrentEngine ==
    Engine(mapping_with_metadata, fbfm40_descriptions, expected_source_classes,
           valid_fbfm40_classes, validation_passed, validation_results)

ConfigOthersUnchanged ==
    UNCHANGED <<rasterVars, alignVars, detectVars, runVars, serviceVars>>

\* run_validation_suite()
RunValidationSuite ==
    /\ LET suite == ValidationSuite(mapping_with_metadata,
                                    expected_source_classes,
                                    valid_fbfm40_classes)
       IN /\ validation_passed' = suite.validation_passed
          /\ validation_results' = suite.validation_results
    /\ UNCHANGED <<mapping_with_metadata, fbfm40_descriptions,
                   expected_source_classes, valid_fbfm40_classes, configVars>>
    /\ ConfigOthersUnchanged

\* save_mapping_config(output_path)
SaveMappingConfig ==
    /\ config_file' = [exists |-> TRUE,
                       document |-> SavedDocument(CurrentEngine),
                       saved |-> CurrentEngine]
    /\ UNCHANGED <<tableVars, loaded>>
    /\ ConfigOthersUnchanged

\* FuelModelReconciliation(mapping_config=path): load_mapping_config on the
\* new object when the file exists, else load_default_mapping; then the
\* validation flags.
ConstructFromConfig ==
    /\ loaded.how = "none"
    /\ loaded' =
        IF ~config_file.exists
        THEN [how |-> "constructor", status |-> "default",
              engine |-> DefaultEngine, read |-> config_file]
        ELSE IF LoadRaises(AttributesAtConstruction)
        THEN [how |-> "constructor", status |-> "AttributeError",
              engine |-> DefaultEngine, read |-> config_file]
        ELSE [how |-> "constructor", status |-> "loaded",
              engine |-> [LoadMappingConfig(DefaultEngine, config_file.document)
                            EXCEPT !.validation_passed = FALSE,
                                   !.validation_results = NoResults],
              read |-> config_file]
    /\ UNCHANGED <<tableVars, config_file>>
    /\ ConfigOthersUnchanged

\* FuelModelReconciliation().load_mapping_config(path)
LoadIntoDefaultEngine ==
    /\ loaded.how = "none"
    /\ loaded' =
        IF ~config_file.exists
        THEN [how |-> "load_mapping_config", status |-> "FileNotFoundError",
              engine |-> DefaultEngine, read |-> config_file]
        ELSE IF LoadRaises(AttributesOfEngine)
        THEN [how |-> "load_mapping_config", status |-> "AttributeError",
              engine |-> DefaultEngine, read |-> config_file]
        ELSE [how |-> "load_mapping_config", status |-> "loaded",
              engine |-> LoadMappingConfig(DefaultEngine, config_file.document),
              read |-> config_file]
    /\ UNCHANGED <<tableVars, config_file>>
    /\ ConfigOthersUnchanged

NextConfig ==
    \/ RunValidationSuite
    \/ SaveMappingConfig
    \/ ConstructFromConfig
    \/ LoadIntoDefaultEngine

InitConfigSpec ==
    InitConfig /\ InitRasterIdle /\ InitAlignIdle /\ InitDetectIdle /\ InitRunIdle
    /\ InitServiceIdle

SpecConfig == InitConfigSpec /\ [][NextConfig]_vars

\* C10: a table saved with save_mapping_config and loaded again, by the
\* constructor or by load_mapping_config, equals the saved one: rules,
\* expected source codes, valid target codes, class descriptions and the
\* last validation result.
C10_SavedTableLoadsBack ==
    loaded.read.exists =>
        /\ loaded.status = "loaded"
        /\ loaded.engine = loaded.read.saved

\* run_validation_suite has run on the engine's table.
Validated == validation_results # NoResults

\* C11: for a table without a rule for the expected source code 11 the
\* validation run records completeness as failed with 11 in its diagnostic,
\* and records the target-validity and the confidence-distribution test,
\* each with the result it has on this table.
C11_MissingRuleFailsCompletenessOnly ==
    (/\ Validated
     /\ 11 \in Range(expected_source_classes)
     /\ 11 \notin DOMAIN mapping_with_metadata)
    =>
        /\ ~validation_results.completeness.passed
        /\ 11 \in validation_results.completeness.result
        /\ ~validation_passed
        /\ validation_results.target_validity =
               ValidateTargetClasses(mapping_with_metadata, valid_fbfm40_classes)
        /\ validation_results.confidence_analysis =
               ValidateConfidenceDistribution(mapping_with_metadata)

\* The suite has run on the default table without its rule for code 11.
C11_Witness ==
    /\ Validated
    /\ 11 \in Range(expected_source_classes)
    /\ DOMAIN mapping_with_metadata = DOMAIN DefaultMapping \ {11}
    /\ validation_results.target_validity.passed

\* C12: a table that is complete and has only valid targets but breaks a
\* semantic rule (1 -> 98, 7 -> 91, 9 -> 92) still passes validation.
C12_SemanticViolationIsOnlyAWarning ==
    (/\ Validated
     /\ validation_results.completeness.passed
     /\ validation_results.target_validity.passed
     /\ ~validation_results.semantic_logic.passed)
    => validation_passed

\* The pixels of the input raster whose source code has no rule.
PixelsWithoutRule == {p \in Pixels(data) : ~HasRule(mapping_with_metadata, data[p[1]][p[2]])}

UnmappedPixelsAreNoData ==
    \A p \in PixelsWithoutRule :
        /\ fuel_output[p[1]][p[2]] = NoData
        /\ confidence_output # <<>> => confidence_output[p[1]][p[2]] = ToFloat32(0)

\* C13 (as stated): after remapping, every pixel whose source code has no
\* rule holds -9999 (confidence 0.0), and the reported unmapped count is the
\* number of those pixels.
C13_UnmappedAreNoDataAndCounted ==
    rpc # "input" =>
        /\ UnmappedPixelsAreNoData
        /\ unmapped_count = Cardinality(PixelsWithoutRule)

\* C13 (amended): every pixel without a rule holds -9999 (confidence 0.0);
\* the reported count is the number of those pixels, except that the aligned
\* engine counts only those of them whose source code is positive.
C13_UnmappedAreNoDataAndCountedPerEngine ==
    rpc # "input" =>
        /\ UnmappedPixelsAreNoData
        /\ unmapped_count =
             IF variant = "aligned"
             THEN Cardinality({p \in PixelsWithoutRule : data[p[1]][p[2]] > 0})
             ELSE Cardinality(PixelsWithoutRule)

\* A raster with mapped and unmapped pixels went through the v1 engine with
\* a confidence raster.
C13_Witness ==
    /\ rpc = "mapped" /\ variant = "v1" /\ confidence_output # <<>>
    /\ PixelsWithoutRule # {}
    /\ PixelsWithoutRule # Pixels(data)
    /\ unmapped_count >= 1

\* The CRS a run was asked to produce: the input's own CRS with
\* keep_original_projection, the target CRS EPSG:5070 otherwise (the aligned
\* engine spells the same projection out as wkt_5070).
ExpectedCrs(r) ==
    IF run[r].kind = "aligned" THEN ReferenceCrs
    ELSE IF run[r].keep_original_projection THEN files[InputPath(r)].crs
    ELSE Epsg5070

\* C14: when the target CRS identifier cannot be resolved the reprojection
\* retries with the hard-coded spelled-out definition of the target CRS and
\* continues with it, and it ends in an error only if the fallback fails too:
\* the CRS a run continues with after the fallback defines the projection of
\* the target CRS, and a failed fallback leaves the run raised.
C14_FallbackIsTheTargetCrs ==
    \A r \in Runs :
        /\ run[r].fallback = "used"
              => run[r].continued_crs.definition = Epsg5070.definition
        /\ run[r].fallback = "failed" => run[r].raised

\* C15: a run whose written output carries a CRS other than the expected one
\* makes exactly one corrective rewrite, and a run that ends with the CRS
\* still different ends with an error reported to the caller.
C15_CrsMismatchIsFixedOnceOrFatal ==
    \A r \in Runs :
        /\ run[r].fix_attempts <= 1
        /\ (/\ run[r].pc = "exit"
            /\ Readable(files[OutputPath(r)])
            /\ files[OutputPath(r)].source = r
            /\ CrsStr(files[OutputPath(r)].crs) # CrsStr(ExpectedCrs(r)))
           => run[r].outcome = "raised"

\* C18: the reprojector accepts exactly the strategies majority/mode and
\* nearest and rejects a call that passes any other strategy instead of
\* executing it: no raster was resampled with another strategy, and a call
\* that passed another strategy raised.
C18_OnlyCategoricalResampling ==
    /\ \A path \in Paths :
          files[path].exists => files[path].resampling \in {"none", "mode", "nearest"}
    /\ \A r \in Runs :
          (/\ run[r].kind = "reproject" /\ run[r].pc = "exit"
           /\ run[r].resampling_method \notin {"mode", "nearest"})
          => run[r].outcome = "raised"

\* C19: detect_classification_system is total: for every list of integer
\* codes it returns exactly one ClassificationSystem tag without raising, and
\* for the empty list it returns UNKNOWN.
C19_DetectIsTotal ==
    dpc = "detected" =>
        /\ detected_system \in ClassificationSystem
        /\ detected_classes = <<>> => detected_system = "UNKNOWN"

C19_Witness ==
    /\ dpc = "detected" /\ detected_classes = <<>>
    /\ detected_system = "UNKNOWN"

\* The share criteria of create_class_mapping read over the set of observed
\* codes, and read over the elements of the list of observed codes.
RegisteredRules == KnownMappings[mapping_result.source_system]
HasRegisteredRule(cls) == ClsKey(cls, RegisteredRules) \in DOMAIN RegisteredRules
HasConfidentRule(cls) ==
    /\ HasRegisteredRule(cls)
    /\ RegisteredRules[ClsKey(cls, RegisteredRules)].confidence >= confidence_threshold

CriteriaOverCodes ==
    LET observed == Range(detected_classes)
    IN /\ observed # {}
       /\ 10 * Cardinality({c \in observed : HasRegisteredRule(c)})
              >= 7 * Cardinality(observed)
       /\ 2 * Cardinality({c \in observed : HasConfidentRule(c)})
              >= Cardinality(observed)

CriteriaOverElements ==
    /\ detected_classes # <<>>
    /\ 10 * Len(SelectSeq(detected_classes, HasRegisteredRule))
           >= 7 * Len(detected_classes)
    /\ 2 * Len(SelectSeq(detected_classes, HasConfidentRule))
           >= Len(detected_classes)

IsIdentityTable ==
    /\ DOMAIN mapping_with_metadata = Fbfm40Classes
    /\ \A cls \in Fbfm40Classes : mapping_with_metadata[cls].target = cls

AllCanonical ==
    \A p \in Pixels(data) : data[p[1]][p[2]] \in Fbfm40Classes

\* C17: remapping a raster whose pixels are all canonical codes with the
\* identity table returns a pixel buffer identical to the input.
C17_IdentityKeepsBuffer ==
    (rpc # "input" /\ IsIdentityTable /\ AllCanonical) => fuel_output = data

\* C17, amended: the buffer is identical to the input, except that an engine
\* with the clouds_as_nodata flag set writes the pixels of code 10 as -9999.
C17_IdentityKeepsBufferUnlessClouds ==
    (rpc # "input" /\ IsIdentityTable /\ AllCanonical) =>
        \A p \in Pixels(data) :
            fuel_output[p[1]][p[2]] =
                IF /\ clouds_as_nodata /\ variant \in {"plain", "v1"}
                   /\ data[p[1]][p[2]] = CloudClass
                THEN NoData ELSE data[p[1]][p[2]]

C17_Witness ==
    /\ rpc = "mapped" /\ variant = "gdal" /\ IsIdentityTable /\ AllCanonical
    /\ Cardinality({data[p[1]][p[2]] : p \in Pixels(data)}) >= 3
    /\ fuel_output = data

\* C20: for every mapping table the engine works with (the default or one
\* loaded from a configuration document) and every input raster, each pixel
\* of the confidence raster lies in [0,1], and a pixel has confidence 0.0
\* exactly when its fuel output is the sentinel -9999.
C20_ConfidenceInUnitRangeZeroIffNoData ==
    (rpc # "input" /\ confidence_output # <<>>) =>
        \A p \in Pixels(data) :
            /\ confidence_output[p[1]][p[2]] >= ToFloat32(0)
            /\ confidence_output[p[1]][p[2]] <= ToFloat32(100)
            /\ confidence_output[p[1]][p[2]] = ToFloat32(0)
                  <=> fuel_output[p[1]][p[2]] = NoData

\* What the engine that remapped the raster writes with the flag clear.
FlagClear ==
    IF variant = "plain"
    THEN ApplyClassMapping(mapping_with_metadata, FALSE, data)
    ELSE IF variant = "v1"
    THEN ApplyClassMappingWithConfidence(mapping_with_metadata, FALSE, data,
                                         confidence_output # <<>>)
    ELSE IF variant = "simple"
    THEN SimpleApplyMapping(mapping_with_metadata, data)
    ELSE AlignedApplyClassMapping(mapping_with_metadata, data)

\* C21: with clouds_as_nodata set, every pixel of source code 10 is written
\* as -9999 (confidence 0.0) and every other pixel gets the output it gets
\* with the flag clear, in every remapping path, the grid-aligned one
\* included.
C21_CloudsBecomeNoDataEverywhere ==
    (rpc # "input" /\ clouds_as_nodata /\ variant # "gdal") =>
        \A p \in Pixels(data) :
            IF data[p[1]][p[2]] = CloudClass
            THEN /\ fuel_output[p[1]][p[2]] = NoData
                 /\ confidence_output # <<>>
                       => confidence_output[p[1]][p[2]] = ToFloat32(0)
            ELSE /\ fuel_output[p[1]][p[2]] = FlagClear.fuel[p[1]][p[2]]
                 /\ confidence_output # <<>>
                       => confidence_output[p[1]][p[2]] =
                              FlagClear.confidence[p[1]][p[2]]

\* C22: for a raster without a sentinel pixel fill_nodata_majority produces
\* an output equal to the input in every pixel.
C22_FillWithoutSentinelIsIdentity ==
    (rpc = "filled" /\ ~HasNoData(fuel_output)) => filled_data = fuel_output

C22_Witness ==
    /\ rpc = "filled" /\ ~HasNoData(fuel_output)
    /\ window_size = 3
    /\ Cardinality({fuel_output[p[1]][p[2]] : p \in Pixels(fuel_output)}) >= 2
    /\ filled_data = fuel_output

\* The input pixels of the window centred on (i, j) that hold v; positions
\* outside the raster hold the sentinel.
InWindow(i, j, v) ==
    {d \in WindowCells(window_size) : At(fuel_output, i + d[1], j + d[2]) = v}
ValidInWindow(i, j) ==
    {At(fuel_output, i + d[1], j + d[2]) : d \in WindowCells(window_size)}
        \ {NoData}

\* C23: fill_nodata_majority gives each sentinel pixel the most frequent
\* non-sentinel value among the input pixels of its window, the smallest
\* value winning a tie; the pixel stays the sentinel exactly when its window
\* holds no non-sentinel input pixel.
C23_SentinelGetsWindowMajority ==
    rpc = "filled" =>
        \A p \in Pixels(fuel_output) :
            fuel_output[p[1]][p[2]] = NoData =>
                LET filled == filled_data[p[1]][p[2]]
                    valid == ValidInWindow(p[1], p[2])
                    n(v) == Cardinality(InWindow(p[1], p[2], v))
                IN IF valid = {} THEN filled = NoData
                   ELSE /\ filled \in valid
                        /\ \A u \in valid :
                              n(filled) > n(u) \/ (n(filled) = n(u) /\ filled <= u)

\* A sentinel pixel whose window holds a tie between two values.
C23_Witness ==
    /\ rpc = "filled"
    /\ \E p \in Pixels(fuel_output) :
          /\ fuel_output[p[1]][p[2]] = NoData
          /\ \E u, v \in ValidInWindow(p[1], p[2]) :
                /\ u < v
                /\ Cardinality(InWindow(p[1], p[2], u))
                     = Cardinality(InWindow(p[1], p[2], v))
                /\ filled_data[p[1]][p[2]] = u

\* C24: for every aligned extent and every positive working resolution the
\* width and height align_bounds_to_grid returns cover the aligned extent, so
\* the output grid contains the original bounding box.
C24_CellCountsCoverAlignedExtent ==
    apc = "aligned" =>
        /\ aligned.width * align_input.input_res
              >= aligned.bounds.maxx - aligned.bounds.minx
        /\ aligned.height * align_input.input_res
              >= aligned.bounds.maxy - aligned.bounds.miny
        /\ aligned.transform.c + aligned.width * align_input.input_res
              >= align_input.bounds.maxx
        /\ aligned.transform.f - aligned.height * align_input.input_res
              <= align_input.bounds.miny

\* The five rules as conditions on the set of observed codes.
Rule1(S) == S \subseteq ((1..40) \cup {91, 92, 93, 98, 99}) /\ S \cap (1..15) # {}
Rule2(S) ==
    /\ \E c \in S : c \in 101..999
    /\ S \cap {101, 102, 103, 108, 109, 110, 201, 202, 301, 902, 998} # {}
Rule3(S) ==
    Cardinality(S \cap {1, 2, 3, 4, 5, 10, 11, 20, 21, 22, 30, 31,
                         100, 101, 102, 103}) >= 3
Rule4Sentinel(S) == S \subseteq 1..150 /\ S \cap {10, 20, 30, 100} # {}
Rule4Landfire(S) == \E c \in S : c > 300

\* C25: detect_classification_system returns the result of the first rule
\* that applies, in the order FBFM40, LANDFIRE signature, Sentinel signature,
\* Sentinel marker in 1..150, maximum above 300, UNKNOWN; the result depends
\* only on the set of codes.
C25_FirstApplicableRuleWins ==
    dpc # "ready" =>
        LET S == Range(detected_classes)
        IN detected_system =
              IF Rule1(S) THEN "FBFM40"
              ELSE IF Rule2(S) THEN "LANDFIRE_US"
              ELSE IF Rule3(S) THEN "SENTINEL_FUEL_2024"
              ELSE IF Rule4Sentinel(S) THEN "SENTINEL_FUEL_2024"
              ELSE IF Rule4Landfire(S) THEN "LANDFIRE_US"
              ELSE "UNKNOWN"

\* A list to which the LANDFIRE and the Sentinel signature both apply.
C25_Witness ==
    /\ dpc = "detected"
    /\ Rule2(Range(detected_classes)) /\ Rule3(Range(detected_classes))
    /\ ~Rule1(Range(detected_classes))
    /\ detected_system = "LANDFIRE_US"

\* The registered system whose full code set the detector was given.
FullCodeSetOf(system) ==
    dpc # "ready" /\ Range(detected_classes) =
        Range(SystemCodes(IF system = "SENTINEL_FUEL_2024" THEN SentinelRules
                          ELSE LandfireRules))

\* C29: for SENTINEL_FUEL_2024 and LANDFIRE_US, the detector applied to the
\* full set of the system's source codes returns that system, and
\* create_class_mapping for the detected system maps every observed code.
C29_DetectsRegisteredSystems ==
    \A system \in {"SENTINEL_FUEL_2024", "LANDFIRE_US"} :
        FullCodeSetOf(system) =>
            /\ detected_system = system
            /\ (dpc = "mapped" /\ mapping_result.source_system = detected_system)
                  => mapping_result.unmapped_classes = <<>>

-----------------------------------------------------------------------------
(* The upload requests *)

InitServiceSpec ==
    /\ InitService
    /\ InitRasterIdle /\ InitTable /\ InitAlignIdle /\ InitDetectIdle
    /\ InitRunIdle /\ InitConfigIdle

SpecService == InitServiceSpec /\ [][NextService]_vars

\* The server runs every handler to its return and every background task
\* it was handed: a request that can take a step eventually takes it.
SpecServiceFair ==
    SpecService /\ \A q \in Requests : WF_vars(RequestStep(q))

\* C26: once a request stored its upload in a temporary file, every
\* temporary file the request created is eventually deleted, on every exit
\* path of process-fuel-map, validate-file and detect-classification.
C26_TempFilesEventuallyDeleted ==
    \A q \in Requests :
        (UploadTemp(q) \in request[q].temp_files) ~> (CreatedBy(q) = {})

-----------------------------------------------------------------------------
(* The order of the steps of a run *)

Completed(r) ==
    /\ run[r].kind \in {"plain", "v1", "aligned"}
    /\ run[r].pc = "exit"
    /\ run[r].outcome = "returned"

\* The steps a caller asked for: the plain engine reprojects unless
\* keep_original_projection is set and fills gaps unless fill_nodata is
\* cleared; process_with_alignment has neither argument.
RequestedSteps(r) ==
    (IF PlainFlow(r) /\ run[r].keep_original_projection
     THEN <<>> ELSE <<"reprojected">>)
    \o <<"mapped">>
    \o (IF PlainFlow(r) /\ ~run[r].fill_nodata THEN <<>> ELSE <<"filled">>)

\* C27: in every run that completes, of the plain and of the grid-aligned
\* pipeline, the final output went through reprojection, then remapping,
\* then gap filling, in this order, and the statistics were computed last,
\* from the final output.
C27_StepsInPipelineOrder ==
    \A r \in Runs :
        Completed(r) =>
            /\ files[OutputPath(r)].history = RequestedSteps(r)
            /\ run[r].reported = files[OutputPath(r)]

-----------------------------------------------------------------------------
(* Gap filling and the confidence raster *)

\* C28: when the v1 run fills gaps and wrote a confidence raster, the
\* gap-fill step fills the confidence raster too: a pixel that was no-data
\* (confidence 0.0) and has a valid pixel in its window, hence got a valid
\* fuel code, has a non-zero confidence afterwards.
C28_FilledPixelsGetConfidence ==
    (rpc = "filled" /\ variant = "v1" /\ confidence_output # <<>>) =>
        \A p \in Pixels(fuel_output) :
            (/\ fuel_output[p[1]][p[2]] = NoData
             /\ \/ ValidInWindow(p[1], p[2]) # {}
                \/ filled_data[p[1]][p[2]] # NoData)
            => confidence_output[p[1]][p[2]] # ToFloat32(0)

-----------------------------------------------------------------------------
(* What the cleanup of a run removes *)

\* The finally block of run r takes a step.
CleansUp(r) ==
    /\ run[r].pc \in {"cleanup", "rmdir"}
    /\ run'[r].pc # run[r].pc

\* C30: the cleanup of a run deletes only the intermediate files this run
\* created: every other file, among them the rasters that were in the temp
\* directory before the run and the final output, is the same after the
\* cleanup as before it, whether the run returns or raises.
C30_CleanupDeletesOnlyOwnIntermediates ==
    [][\A r \in Runs :
          CleansUp(r) =>
              \A path \in Paths :
                  files'[path] # files[path] =>
                      /\ path \in IntermediatesOf(r)
                      /\ files[path].source = r]_vars

====
